---- MODULE Spec2Model ----
(***************************************************************************)
(* The UserInteractions controller of the flatmap viewer, in its two       *)
(* versions: the annotation-oriented one (src/src/interactions.js,         *)
(* variant "A") and the general viewer (src/unnamed/part_000, variant      *)
(* "B").  The map engine, the tooltip widget, the context menu and the     *)
(* host flatmap are the controller's environment: their answers are        *)
(* inputs of the handlers, their state is what the handlers set.           *)
(***************************************************************************)
EXTENDS Integers, Sequences, FiniteSets, TLC

\* ------------------------------------------------------------------ bounds
MaxIds == 2         \* ids given to zoomToFeatures, at most
MaxCoord == 1       \* box coordinates of the bounds-merge inputs: 0..MaxCoord
MaxLen == 3         \* length of a candidate list given to the smallest-polygon search
MaxClock == 1       \* ticks of the coarse clock of Spec
MaxCycles == 5       \* times the annotation control is added to a map, at most
MaxSwitches == 2     \* calls of layerSwitcherActiveCallback_ after construction, at most
MaxLayers == 3      \* layers a flatmap declares, at most
MaxPress == 700     \* ms the clock of SpecTouch runs after construction
MaxGap == 202       \* ms the clock of SpecDebounce runs after construction
Epoch == 1000       \* Date.now() at construction (any value >= 100 ms)

\* ------------------------------------------------------- program constants
ContextDebounceMs == 100
ZoomPadding == 100
LongPressMs == 500

NULL == "null"
Undefined == "undefined"

\* ------------------------------------------------------------------- world
\* The flatmap the controller is constructed on.  A feature is known by its
\* id: the feature-state store is keyed by it (utils.mapFeature(layer, id)
\* and a rendered feature of that id name the same entry).
Features == {"f1", "f2", "f3", "f4", "f5", "f6", "f7", "f8"}

\* an id that names no feature and no annotation
UnknownId == "zz"

\* feature.geometry.type
GeometryType(f) ==
    CASE f = "f3" -> "MultiPolygon"
      [] f \in {"f5", "f7"} -> "Point"
      [] OTHER    -> "Polygon"

\* feature.layer.type (the style layer that rendered it)
LayerType(f) == IF f \in {"f5", "f7"} THEN "symbol" ELSE "fill"

\* turfArea of the feature's geometry; also its `area` property
Area(f) ==
    CASE f = "f1" -> 100
      [] f = "f2" -> 40
      [] f = "f3" -> 40
      [] f = "f4" -> 10
      [] f = "f5" -> 5
      [] f = "f8" -> 200
      [] OTHER    -> 1

\* feature.sourceLayer
SourceLayer(f) == IF f \in {"f1", "f3", "f8"} THEN "nerves" ELSE "body"

\* 'id' in feature.properties
HasId(f) == f \in Features

\* 'label' in feature.properties, and its value
HasLabelProperty(f) == f \in {"f4", "f5", "f6"}
LabelProperty(f) ==
    CASE f = "f4" -> "D"
      [] f = "f5" -> "S"
      [] OTHER    -> "U"

\* flatmap.annotations: the annotated feature ids and their records
AnnotatedIds == {"f1", "f2", "f3", "f4", "f8"}

Annotation(id) ==
    CASE id = "f1" -> [layer |-> "nerves", models |-> <<"m1">>, label |-> "",
                       url |-> "u1", bounds |-> <<0, 0, 10, 10>>, error |-> FALSE]
      [] id = "f2" -> [layer |-> "body", models |-> <<"m2", "m3">>, label |-> "B",
                       url |-> "u2", bounds |-> <<5, 5, 20, 20>>, error |-> FALSE]
      [] id = "f3" -> [layer |-> "nerves", models |-> <<>>, label |-> "C",
                       url |-> "u3", bounds |-> <<2, 1, 8, 30>>, error |-> TRUE]
      [] id = "f8" -> [layer |-> "nerves", models |-> <<"m8">>, label |-> "H",
                       url |-> "u8", bounds |-> <<0, 0, 30, 30>>, error |-> FALSE]
      [] OTHER     -> [layer |-> "body", models |-> <<>>, label |-> "D",
                       url |-> "u4", bounds |-> <<6, 6, 7, 7>>, error |-> FALSE]

\* turfBBox of a rendered feature's geometry
turfBBox(f) == IF f = "f5" THEN <<3, 3, 3, 3>> ELSE <<4, 4, 5, 5>>

\* feature.properties.bounds: the serialized box the tiles carry for an
\* annotated feature, absent (NULL) for the others; JSON.parse reads it back.
Serialized(box) == [json |-> box]
BoundsProperty(f) == IF f \in AnnotatedIds THEN Serialized(Annotation(f).bounds) ELSE Serialized(<<>>)
HasBoundsProperty(f) == f \in AnnotatedIds
JSONparse(text) == text.json

\* the layers the flatmap declares, and LayerManager.layerQueryable(layerName)
Layers == {"body", "nerves"}
layerQueryable(layer) == layer = "body"


\* ------------------------------------------------------------------- state
VARIABLES
    variant,                \* "A": src/src/interactions.js, "B": src/unnamed/part_000
    options,                \* flatmap.options
    featureState,           \* the map's feature-state store: id -> set of flags
    _selectedFeature,
    _highlightedFeatures,
    _activeFeature,         \* B only
    _modal,
    _inQuery,
    cursor,                 \* map.getCanvas().style.cursor
    _tooltip,               \* A: the ToolTip widget; B: the hover Popup or none
    menu,                   \* the ContextMenu widget
    _currentPopup,          \* B only
    onMap,                  \* B only: the Popup objects attached to the map, by maker
    _lastClickedLocation,   \* B only
    _lastContextTime,
    _lastTouchTime,
    now,                    \* Date.now()
    userInterfaceLoadedCallback,  \* the constructor's argument: NULL or a callback
    _userInterfaceLoadedCallback,
    uiLoaded,               \* the times the UI-loaded callback was invoked
    pc,                     \* the constructor's position in StartupSteps
    handlers,               \* the events registered with map.on, in order
    switched,               \* layerSwitcherActiveCallback_ calls so far
    inCallback,             \* activations of the UI-loaded callback that have not returned
    lastOp,                 \* the handler that ran last
    calls,                  \* the calls it made on its collaborators, in order
    layers,                 \* flatmap.layers: the layer objects, in declaration order
    control,                \* the AnnotationRegionControl and what it registered
    layerManager,           \* the ids of the layers given to LayerManager.addLayer, in order
    bboxes, merged,         \* inputs and results of the bounds merge
    candidates, smallest    \* input and result of the smallest-polygon search

vars == <<variant, options, featureState, _selectedFeature, _highlightedFeatures,
          _activeFeature, _modal, _inQuery, cursor, _tooltip, menu, _currentPopup,
          onMap, _lastClickedLocation, _lastContextTime, _lastTouchTime, now, lastOp,
          calls, bboxes, merged, candidates, smallest,
          userInterfaceLoadedCallback, _userInterfaceLoadedCallback, uiLoaded,
          pc, handlers, switched, inCallback, layers, layerManager, control>>

\* what construction and the layer switcher's callback work on
StartupVars == <<userInterfaceLoadedCallback, _userInterfaceLoadedCallback,
                 uiLoaded, pc, handlers, switched, inCallback>>

\* what the constructor's loops over flatmap.layers work on
LayerVars == <<layers, layerManager>>

\* The controller and the widgets it drives, as one value: a method is an
\* operator from this value (and its arguments) to the value it leaves.
Self ==
    [variant |-> variant, options |-> options, featureState |-> featureState,
     _selectedFeature |-> _selectedFeature,
     _highlightedFeatures |-> _highlightedFeatures,
     _activeFeature |-> _activeFeature, _modal |-> _modal, _inQuery |-> _inQuery,
     cursor |-> cursor, _tooltip |-> _tooltip, menu |-> menu,
     _currentPopup |-> _currentPopup,
     onMap |-> onMap,
     _lastClickedLocation |-> _lastClickedLocation,
     _lastContextTime |-> _lastContextTime, _lastTouchTime |-> _lastTouchTime,
     calls |-> <<>>]

\* the handler `op` ran and left the controller as c
Commit(op, c) ==
    /\ lastOp' = op
    /\ variant' = c.variant
    /\ options' = c.options
    /\ featureState' = c.featureState
    /\ _selectedFeature' = c._selectedFeature
    /\ _highlightedFeatures' = c._highlightedFeatures
    /\ _activeFeature' = c._activeFeature
    /\ _modal' = c._modal
    /\ _inQuery' = c._inQuery
    /\ cursor' = c.cursor
    /\ _tooltip' = c._tooltip
    /\ menu' = c.menu
    /\ _currentPopup' = c._currentPopup
    /\ onMap' = c.onMap
    /\ _lastClickedLocation' = c._lastClickedLocation
    /\ _lastContextTime' = c._lastContextTime
    /\ _lastTouchTime' = c._lastTouchTime
    /\ calls' = c.calls

\* ------------------------------------------------- collaborators (external)
\* map.setFeatureState(feature, {flag: true}) / map.removeFeatureState(feature, flag)
setFeatureState(c, feature, flag) ==
    [c EXCEPT !.featureState[feature] = @ \cup {flag}]

removeFeatureState(c, feature, flag) ==
    [c EXCEPT !.featureState[feature] = @ \ {flag}]

\* map.getFeatureState(feature)[flag]
getFeatureState(c, feature, flag) == flag \in c.featureState[feature]

\* a call made on a collaborator, recorded
Call(c, call) == [c EXCEPT !.calls = Append(@, call)]

\* flatmap.getAnnotation(id) / flatmap.annotation(id): does the id have a record
HasAnnotation(id) == id \in AnnotatedIds

\* flatmap.modelsForFeature(id)
modelsForFeature(id) == IF HasAnnotation(id) THEN Annotation(id).models ELSE <<>>

\* ToolTip.show(position, content) / ToolTip.hide()
NoTooltip == [shown |-> FALSE, content |-> <<>>]
ToolTipShow(c, position, content) ==
    [c EXCEPT !._tooltip = [shown |-> TRUE, content |-> content]]
ToolTipHide(c) == [c EXCEPT !._tooltip = NoTooltip]

\* --------------------------------------------------------------- geometry
Min(a, b) == IF a < b THEN a ELSE b
Max(a, b) == IF a > b THEN a ELSE b

\* bounds(feature): the serialized box when the feature carries one, else
\* the box of the geometry at hand
bounds(feature) ==
    IF HasBoundsProperty(feature) /\ JSONparse(BoundsProperty(feature)) # <<>>
    THEN JSONparse(BoundsProperty(feature))
    ELSE turfBBox(feature)

\* a faulty version: the third component is taken from the first box alone
expandBoundsFirstMax(bbox1, bbox2) ==
    <<Min(bbox1[1], bbox2[1]), Min(bbox1[2], bbox2[2]),
      bbox1[3], Max(bbox1[4], bbox2[4])>>

expandBounds(bbox1, bbox2) ==
    <<Min(bbox1[1], bbox2[1]), Min(bbox1[2], bbox2[2]),
      Max(bbox1[3], bbox2[3]), Max(bbox1[4], bbox2[4])>>

\* the box `null` of zoomToFeatures before any feature has contributed
NoBox == <<>>

\* -------------------------------------------------- selection, highlighting
\* a faulty version: the previous selection keeps its flag
unselectFeatures_KeepingFlag(c, reset) ==
    IF c._selectedFeature # NULL /\ reset
    THEN [c EXCEPT !._selectedFeature = NULL]
    ELSE c

unselectFeatures_(c, reset) ==
    IF c._selectedFeature # NULL
    THEN LET c1 == removeFeatureState(c, c._selectedFeature, "selected")
         IN  IF reset THEN [c1 EXCEPT !._selectedFeature = NULL] ELSE c1
    ELSE c

selectFeature_(c, feature) ==
    LET c1 == unselectFeatures_(c, FALSE)
        c2 == setFeatureState(c1, feature, "selected")
    IN  [c2 EXCEPT !._selectedFeature = feature]

\* a faulty version: the flag is set and the feature is not tracked
highlightFeature_Untracked(c, feature) == setFeatureState(c, feature, "highlighted")

highlightFeature_(c, feature) ==
    LET c1 == setFeatureState(c, feature, "highlighted")
    IN  [c1 EXCEPT !._highlightedFeatures = Append(@, feature)]

RECURSIVE RemoveHighlighted(_, _)
RemoveHighlighted(c, features) ==
    IF features = <<>> THEN c
    ELSE RemoveHighlighted(removeFeatureState(c, Head(features), "highlighted"),
                           Tail(features))

\* a faulty version: only the first highlighted feature loses its flag
unhighlightFeatures_FirstOnly(c) ==
    LET c1 == IF c._highlightedFeatures = <<>> THEN c
              ELSE removeFeatureState(c, Head(c._highlightedFeatures), "highlighted")
    IN  [c1 EXCEPT !._highlightedFeatures = <<>>]

unhighlightFeatures_(c) ==
    LET c1 == RemoveHighlighted(c, c._highlightedFeatures)
    IN  [c1 EXCEPT !._highlightedFeatures = <<>>]

\* ------------------------------------------------------ feature resolution
\* A pointer event: where it is, what map.queryRenderedFeatures(event.point)
\* answers, and what the layer manager names as active layers at that time.
activeFeaturesAtEvent_(event) ==
    SelectSeq(event.features,
              LAMBDA f : SourceLayer(f) \in event.active /\ HasId(f))

\* feature.geometry.type.includes('Polygon')
IncludesPolygon(type) == type \in {"Polygon", "MultiPolygon"}

\* a faulty version: a later feature of equal area replaces an earlier one
IsSmallerOrEqual(smallestFeature, smallestArea, area) ==
    smallestFeature = NULL \/ smallestArea >= area

\* a faulty version: the comparison is turned round
IsLarger(smallestFeature, smallestArea, area) ==
    smallestFeature = NULL \/ smallestArea < area

\* the test that replaces the smallest feature found so far
IsSmaller(smallestFeature, smallestArea, area) ==
    smallestFeature = NULL \/ smallestArea > area

RECURSIVE SmallestFrom(_, _, _, _)
SmallestFrom(c, features, smallestArea, smallestFeature) ==
    IF features = <<>> THEN smallestFeature
    ELSE LET feature == Head(features)
         IN  IF /\ IncludesPolygon(GeometryType(feature))
                /\ getFeatureState(c, feature, "annotated")
                /\ IsSmaller(smallestFeature, smallestArea, Area(feature))
             THEN SmallestFrom(c, Tail(features), Area(feature), feature)
             ELSE SmallestFrom(c, Tail(features), smallestArea, smallestFeature)

smallestAnnotatedPolygonFeature_(c, features) == SmallestFrom(c, features, 0, NULL)

smallestAnnotatedPolygonAtEvent_(c, event) ==
    smallestAnnotatedPolygonFeature_(c, activeFeaturesAtEvent_(event))

\* ------------------------------------------------------------ context menu
NoMenu == [open |-> FALSE, items |-> <<>>]

\* a faulty version: the close callback also ends an outstanding query
contextMenuClosed_EndingQuery(c) == [c EXCEPT !._modal = FALSE, !._inQuery = FALSE]

\* a faulty version: the close callback leaves the flag alone
contextMenuClosed_Ignored(c) == c

contextMenuClosed_(c) == [c EXCEPT !._modal = FALSE]

\* ContextMenu.show(position, items): a menu still open is replaced, which
\* ends its cycle (its close callback fires)
ContextMenuShow(c, position, items) ==
    LET c1 == IF c.menu.open THEN contextMenuClosed_(c) ELSE c
    IN  Call([c1 EXCEPT !.menu = [open |-> TRUE, items |-> items]],
             [op |-> "contextMenu.show", at |-> position, items |-> items])

\* ContextMenu.hide(): closes an open menu, whose close callback fires
ContextMenuHide(c) ==
    LET c1 == IF c.menu.open
              THEN contextMenuClosed_([c EXCEPT !.menu = NoMenu])
              ELSE c
    IN  Call(c1, [op |-> "contextMenu.hide"])

Separator == [id |-> NULL, prompt |-> "-", action |-> "-"]
Item(id, prompt, action) == [id |-> id, prompt |-> prompt, action |-> action]

\* a faulty version: the separator is pushed whether or not an item precedes it
contextMenuItemsSeparated(feature) ==
    LET id == feature
        i1 == IF HasAnnotation(id) /\ Len(Annotation(id).models) > 0
              THEN <<Item(id, "Search for knowledge about node", "data")>>
              ELSE <<>>
        i2 == IF HasAnnotation(id) /\ layerQueryable(Annotation(id).layer)
              THEN i1 \o <<Item(id, "Find edges connected to node", "edges"),
                           Item(id, "Find nodes and edges connected to node", "nodes")>>
              ELSE i1
    IN  Append(Append(i2, Separator), Item(id, "Zoom to...", "zoom"))

\* the items contextMenuEvent_ builds for the feature it resolved
contextMenuItems(feature) ==
    LET id == feature
        i1 == IF HasAnnotation(id) /\ Len(Annotation(id).models) > 0
              THEN <<Item(id, "Search for knowledge about node", "data")>>
              ELSE <<>>
        i2 == IF HasAnnotation(id) /\ layerQueryable(Annotation(id).layer)
              THEN i1 \o <<Item(id, "Find edges connected to node", "edges"),
                           Item(id, "Find nodes and edges connected to node", "nodes")>>
              ELSE i1
        i3 == IF Len(i2) > 0 THEN Append(i2, Separator) ELSE i2
    IN  Append(i3, Item(id, "Zoom to...", "zoom"))

\* a faulty version: the window is left out of the comparison
DebouncedNoWindow(time, lastContextTime) == time < lastContextTime

\* Date.now() < this._lastContextTime + 100
Debounced(time, lastContextTime) == time < lastContextTime + ContextDebounceMs

contextMenuEvent_A(c, event, time) ==
    IF Debounced(time, c._lastContextTime) THEN c
    ELSE LET c1 == [c EXCEPT !._lastContextTime = time]
             feature == smallestAnnotatedPolygonFeature_(c1, activeFeaturesAtEvent_(event))
         IN  IF feature # NULL
             THEN LET c2 == ToolTipHide(selectFeature_(c1, feature))
                      items == contextMenuItems(feature)
                  IN  IF Len(items) > 0
                      THEN ContextMenuShow([c2 EXCEPT !._modal = TRUE],
                                           event.lngLat, items)
                      ELSE c2
             ELSE c1

contextMenuEvent_B(c, event, time) ==
    IF Debounced(time, c._lastContextTime) THEN c
    ELSE LET c1 == [c EXCEPT !._lastContextTime = time]
             feature == smallestAnnotatedPolygonFeature_(c1, activeFeaturesAtEvent_(event))
         IN  IF feature # NULL
             THEN LET c2 == selectFeature_(c1, feature)
                      items == contextMenuItems(feature)
                  IN  IF Len(items) > 0
                      THEN ContextMenuShow([c2 EXCEPT !._modal = TRUE],
                                           event.lngLat, items)
                      ELSE c2
             ELSE c1

\* ------------------------------------------------------------ hover, in A
\* this.annotating: no statement of the class sets it, so it reads undefined
annotating == FALSE

\* tooltip(valuesList): an element with one child per value
tooltip(valuesList) == valuesList

\* showTooltip_(position, feature): the result and the controller it leaves
showTooltip_(c, position, feature) ==
    LET id == feature
        c1 == selectFeature_(c, feature)
        shown ==
            IF annotating
            THEN [result |-> TRUE,
                  c |-> IF HasAnnotation(id)
                        THEN ToolTipShow(c1, position,
                                 tooltip(<<id, Annotation(id).label,
                                           IF Annotation(id).error THEN "error" ELSE "">>))
                        ELSE ToolTipShow(c1, position,
                                 tooltip(<<id, IF getFeatureState(c1, feature, "annotated")
                                               THEN "true" ELSE "undefined">>))]
            ELSE IF HasAnnotation(id)
            THEN LET models == Annotation(id).models
                 IN  IF Len(models) > 0
                     THEN [result |-> TRUE,
                           c |-> ToolTipShow(c1, position,
                                    tooltip(<<IF Annotation(id).label # ""
                                              THEN Annotation(id).label
                                              ELSE models[1]>>))]
                     ELSE IF layerQueryable(Annotation(id).layer)
                     THEN [result |-> TRUE, c |-> c1]
                     ELSE [result |-> FALSE, c |-> c1]
            ELSE [result |-> FALSE, c |-> c1]
    IN  IF shown.result /\ ~shown.c._inQuery
        THEN [shown EXCEPT !.c.cursor = "pointer"]
        ELSE shown

\* a faulty version: a miss hides the tooltip and keeps the selection
mouseMoveEvent_AKeepingSelection(c, event) ==
    IF c._modal THEN c
    ELSE LET feature == smallestAnnotatedPolygonFeature_(c, activeFeaturesAtEvent_(event))
             shown == IF feature = NULL
                      THEN [result |-> FALSE, c |-> c]
                      ELSE showTooltip_(c, event.lngLat, feature)
         IN  IF ~shown.result
             THEN ToolTipHide(IF ~shown.c._inQuery
                              THEN [shown.c EXCEPT !.cursor = ""]
                              ELSE shown.c)
             ELSE shown.c

mouseMoveEvent_A(c, event) ==
    IF c._modal THEN c
    ELSE LET features == activeFeaturesAtEvent_(event)
             smallestFeature == smallestAnnotatedPolygonFeature_(c, features)
             feature == IF smallestFeature = NULL /\ annotating /\ Len(features) > 0
                        THEN features[1]
                        ELSE smallestFeature
             shown == IF feature = NULL
                      THEN [result |-> FALSE, c |-> c]
                      ELSE showTooltip_(c, event.lngLat, feature)
         IN  IF ~shown.result
             THEN LET c1 == IF ~shown.c._inQuery
                            THEN [shown.c EXCEPT !.cursor = ""]
                            ELSE shown.c
                  IN  unselectFeatures_(ToolTipHide(c1), TRUE)
             ELSE shown.c

\* ------------------------------------------------------------ hover, in B
\* new mapboxgl.Popup(...).addTo(map) and popup.remove(), for the hover
\* tooltips and for the popups of showPopup: the map counts what it carries
NothingOnMap == [tooltip |-> 0, popup |-> 0]
AddTo(c, maker) == [c EXCEPT !.onMap[maker] = @ + 1]
Remove(c, maker) == [c EXCEPT !.onMap[maker] = @ - 1]

\* a faulty version: the reference is dropped and the tooltip stays on the map
removeTooltip_Dropping(c) ==
    IF c._tooltip.shown THEN [c EXCEPT !._tooltip = NoTooltip] ELSE c

removeTooltip_(c) ==
    IF c._tooltip.shown THEN [Remove(c, "tooltip") EXCEPT !._tooltip = NoTooltip] ELSE c

\* this._infoControl is constructed iff one of these options is set
HasInfoControl(c) == c.options.featureInfo \/ c.options.searchable

\* features.filter(feature => 'label' in feature.properties)
\*         .sort((a, b) => a.properties.area - b.properties.area)[0]
\* a faulty version: the first labelled feature is taken, whatever its area
FirstLabelled(features, best) ==
    IF features = <<>> THEN best ELSE Head(features)

RECURSIVE FirstOfLeastArea(_, _)
FirstOfLeastArea(features, best) ==
    IF features = <<>> THEN best
    ELSE FirstOfLeastArea(Tail(features),
             IF best = NULL \/ Area(Head(features)) < Area(best)
             THEN Head(features) ELSE best)

NoHtml == <<>>
LabelHtml(feature) == <<"flatmap-feature-label", LabelProperty(feature)>>

\* info: what InfoControl.featureInformation(features) answers
mouseMoveEvent_B(c, event, info) ==
    LET c1 == [removeTooltip_(c) EXCEPT !.cursor = "default"]
        c2 == IF c1._activeFeature # NULL
              THEN [removeFeatureState(c1, c1._activeFeature, "active")
                       EXCEPT !._activeFeature = NULL]
              ELSE c1
        features == event.features
    IN  IF Len(features) = 0 THEN c2
        ELSE LET html0 == IF HasInfoControl(c2) THEN info ELSE NoHtml
                 labelledFeatures == SelectSeq(features, HasLabelProperty)
                 feature == FirstOfLeastArea(labelledFeatures, NULL)
                 pick == html0 = NoHtml /\ feature # NULL
                 c3 == IF pick
                       THEN setFeatureState([c2 EXCEPT !._activeFeature = feature],
                                            feature, "active")
                       ELSE c2
                 c4 == IF pick /\ LayerType(feature) = "symbol"
                       THEN [c3 EXCEPT !.cursor = "pointer"]
                       ELSE c3
                 html == IF pick /\ LayerType(feature) # "symbol" /\ c2.options.tooltips
                         THEN LabelHtml(feature)
                         ELSE html0
             IN  IF html # NoHtml
                 THEN [AddTo(c4, "tooltip")
                          EXCEPT !._tooltip = [shown |-> TRUE, content |-> html]]
                 ELSE c4

\* -------------------------------------------------------------------- zoom
FitBounds(c, bbox, padding) ==
    Call(c, [op |-> "fitBounds", bbox |-> bbox, padding |-> padding, animate |-> FALSE])

zoomTo_A(c, feature) ==
    FitBounds(ContextMenuHide(c), bounds(feature), ZoomPadding)

zoomTo_B(c, feature) ==
    LET c1 == ContextMenuHide(c)
        c2 == highlightFeature_(unhighlightFeatures_(c1), feature)
    IN  FitBounds(c2, bounds(feature), ZoomPadding)

\* zoomTo_(feature) of the controller's variant
zoomTo_(c, feature) ==
    IF c.variant = "A" THEN zoomTo_A(c, feature) ELSE zoomTo_B(c, feature)

\* A: rendered is what map.queryRenderedFeatures(null, {filter: ['in', 'id', ...]})
\* finds among the features drawn at the time
RECURSIVE HighlightRendered(_, _, _)
HighlightRendered(c, features, bbox) ==
    IF features = <<>> THEN [c |-> c, bbox |-> bbox]
    ELSE LET feature == Head(features)
             c1 == [setFeatureState(c, feature, "highlighted")
                       EXCEPT !._highlightedFeatures = Append(@, feature)]
         IN  HighlightRendered(c1, Tail(features),
                 IF bbox = NoBox THEN bounds(feature)
                 ELSE expandBounds(bbox, bounds(feature)))

InIds(featureIds, id) == \E i \in 1..Len(featureIds) : featureIds[i] = id

zoomToFeaturesA(c, featureIds, rendered) ==
    LET c1 == unhighlightFeatures_(c)
    IN  IF Len(featureIds) > 0
        THEN LET features == SelectSeq(rendered, LAMBDA f : HasId(f) /\ InIds(featureIds, f))
             IN  IF Len(features) > 0
                 THEN LET r == HighlightRendered(c1, features, NoBox)
                      IN  FitBounds(r.c, r.bbox, ZoomPadding)
                 ELSE c1
        ELSE c1

RECURSIVE HighlightAnnotated(_, _, _)
HighlightAnnotated(c, featureIds, bbox) ==
    IF featureIds = <<>> THEN [c |-> c, bbox |-> bbox]
    ELSE LET featureId == Head(featureIds)
         IN  IF HasAnnotation(featureId)
             THEN HighlightAnnotated(highlightFeature_(c, featureId), Tail(featureIds),
                      IF bbox = NoBox THEN Annotation(featureId).bounds
                      ELSE expandBounds(bbox, Annotation(featureId).bounds))
             ELSE HighlightAnnotated(c, Tail(featureIds), bbox)

zoomToFeaturesB(c, featureIds, padding) ==
    LET c1 == unhighlightFeatures_(c)
    IN  IF Len(featureIds) > 0
        THEN LET r == HighlightAnnotated(c1, featureIds, NoBox)
             IN  FitBounds(r.c, r.bbox, padding)
        ELSE c1

clearResults(c) == unhighlightFeatures_(c)

\* ------------------------------------------------------------------- query
queryData_(c, modelList) ==
    IF Len(modelList) > 0
    THEN Call(c, [op |-> "callback", event |-> "query-data", models |-> modelList])
    ELSE c

query_A(c, type, featureId) ==
    LET c1 == ContextMenuHide(unhighlightFeatures_(c))
        c2 == IF type = "data"
              THEN queryData_(c1, modelsForFeature(featureId))
              ELSE [Call(c1, [op |-> "queryInterface.query", type |-> type,
                              url |-> Annotation(featureId).url,
                              models |-> Annotation(featureId).models])
                       EXCEPT !.cursor = "progress", !._inQuery = TRUE]
    IN  [c2 EXCEPT !._modal = FALSE]

\* a faulty version: what is highlighted stays highlighted
query_BKeepingHighlights(c, type, featureId) ==
    LET c1 == ContextMenuHide(c)
        c2 == IF type = "data"
              THEN queryData_(c1, modelsForFeature(featureId))
              ELSE [c1 EXCEPT !.cursor = "progress", !._inQuery = TRUE]
    IN  [c2 EXCEPT !._modal = FALSE]

query_B(c, type, featureId) ==
    LET c1 == ContextMenuHide(unhighlightFeatures_(c))
        c2 == IF type = "data"
              THEN queryData_(c1, modelsForFeature(featureId))
              ELSE [c1 EXCEPT !.cursor = "progress", !._inQuery = TRUE]
    IN  [c2 EXCEPT !._modal = FALSE]

\* ------------------------------------------------------------------- popup
NoPopup == [attached |-> FALSE, content |-> ""]

\* a faulty version: the feature is added to what is highlighted already
showPopupAddingHighlight(c, featureId, content, onScreen) ==
    IF HasAnnotation(featureId)
    THEN [highlightFeature_(c, featureId)
             EXCEPT !._currentPopup = [attached |-> TRUE, content |-> content]]
    ELSE c

\* onScreen: what map.getBounds().contains(location) answers
showPopup(c, featureId, content, onScreen) ==
    IF HasAnnotation(featureId)
    THEN LET c1 == IF c._currentPopup.attached
                   THEN Call(Remove(c, "popup"), [op |-> "popup.remove"]) ELSE c
             c2 == highlightFeature_(unhighlightFeatures_(c1), featureId)
             location == IF c2._lastClickedLocation = NULL
                         THEN "centroid" ELSE c2._lastClickedLocation
             c3 == IF ~onScreen THEN Call(c2, [op |-> "panTo", at |-> location]) ELSE c2
         IN  Call([AddTo(c3, "popup")
                     EXCEPT !._currentPopup = [attached |-> TRUE, content |-> content]],
                  [op |-> "popup.addTo", at |-> location, content |-> content])
    ELSE c

\* ------------------------------------------------------------------- click
\* this._layerSwitcher: no statement of A's class sets it, so it reads undefined
HasLayerSwitcher == FALSE

clickEvent_A(c, event) ==
    IF ~HasLayerSwitcher
    THEN Call(c, [op |-> "throw", error |-> "TypeError"])
    ELSE LET feature == smallestAnnotatedPolygonAtEvent_(c, event)
             c1 == IF feature # NULL
                   THEN queryData_(selectFeature_(c, feature), modelsForFeature(feature))
                   ELSE c
         IN  unhighlightFeatures_(c1)

\* a faulty version: the features are forwarded last to first
RECURSIVE FeatureEventsReversed(_, _)
FeatureEventsReversed(c, features) ==
    IF features = <<>> THEN c
    ELSE Call(FeatureEventsReversed(c, Tail(features)),
              [op |-> "featureEvent", event |-> "click", feature |-> Head(features)])

RECURSIVE FeatureEvents(_, _)
FeatureEvents(c, features) ==
    IF features = <<>> THEN c
    ELSE FeatureEvents(Call(c, [op |-> "featureEvent", event |-> "click",
                                feature |-> Head(features)]),
                       Tail(features))

clickEvent_B(c, event) ==
    LET symbolFeatures == SelectSeq(event.features, LAMBDA f : LayerType(f) = "symbol")
    IN  IF Len(symbolFeatures) > 0
        THEN FeatureEvents([c EXCEPT !._lastClickedLocation = event.lngLat],
                           symbolFeatures)
        ELSE c

\* ------------------------------------------------------------ construction
\* the feature-state store once the constructor has flagged the annotations
RECURSIVE FlagAnnotations(_, _)
FlagAnnotations(store, ids) ==
    IF ids = {} THEN store
    ELSE LET id == CHOOSE x \in ids : TRUE
             flags == IF Annotation(id).error
                      THEN {"annotated", "annotation-error"} ELSE {"annotated"}
         IN  FlagAnnotations([store EXCEPT ![id] = @ \cup flags], ids \ {id})

\* the statements of the constructor that follow its field assignments, in
\* order: the loop that flags the annotations, the map.on registrations, and
\* the UI-loaded callback
StartupStepsHandlersFirst(v) ==
    <<"mousemove", "flag", "contextmenu", "touchstart", "touchend", "click", "uiLoaded">>

StartupSteps(v) ==
    IF v = "A"
    THEN <<"flag", "mousemove", "contextmenu", "touchstart", "touchend", "click",
           "uiLoaded">>
    ELSE <<"flag", "contextmenu", "touchstart", "touchend", "mousemove", "click",
           "uiLoaded">>

HandlerEvents == {"mousemove", "contextmenu", "touchstart", "touchend", "click"}

\* the position of a constructor that has returned
Done(v) == Len(StartupSteps(v)) + 1

\* the map.on registrations of the constructor, in order
Registered(v) == SelectSeq(StartupSteps(v), LAMBDA step : step \in HandlerEvents)

\* The callbacks a caller may give to the constructor, by what their body
\* does with the controller it receives: "callback" returns without touching
\* it, "reentering" calls layerSwitcherActiveCallback_ on it (once, in its
\* first activation) and returns, "throwing" throws.
Callbacks == {"callback", "reentering", "throwing"}

\* if (this._userInterfaceLoadedCallback !== null) { invoke it; set it to null }
\* The callback is invoked while the reference is still set, the assignment
\* of null follows its return, and an exception of the callback leaves the
\* statement before the assignment.
\* callback: the stored reference; count: the invocations before;
\* activations: the activations of the callback that have not returned
RECURSIVE layerSwitcherActiveCallback_In(_, _, _)
layerSwitcherActiveCallback_In(callback, count, activations) ==
    IF callback = NULL
    THEN [callback |-> NULL, uiLoaded |-> count, threw |-> FALSE]
    ELSE LET ran ==
                 IF callback = "throwing"
                 THEN [callback |-> callback, uiLoaded |-> count + 1, threw |-> TRUE]
                 ELSE IF callback = "reentering" /\ activations = 0
                 THEN layerSwitcherActiveCallback_In(callback, count + 1, activations + 1)
                 ELSE [callback |-> callback, uiLoaded |-> count + 1, threw |-> FALSE]
         IN  IF ran.threw THEN ran ELSE [ran EXCEPT !.callback = NULL]

\* layerSwitcherActiveCallback_(layerSwitcher), called from outside the callback
layerSwitcherActiveCallback_(callback, count) ==
    layerSwitcherActiveCallback_In(callback, count, 0)

\* A declared layer: its id, the id of the layer it is a background for (or
\* NULL), and the backgroundLayers list the constructor gives it.
Layer(id, background_for) ==
    [id |-> id, background_for |-> background_for, backgroundLayers |-> Undefined]

\* for (const layer of flatmap.layers) {
\*     layer.backgroundLayers = []; layersById.set(layer.id, layer); }
ResetBackgroundLayers(ls) ==
    [i \in DOMAIN ls |-> [ls[i] EXCEPT !.backgroundLayers = <<>>]]

\* layersById.get(id): the position of the layer stored under the id (the last
\* one declared with it), 0 when the map has no such key (undefined)
layersById(ls, id) ==
    LET at == {i \in DOMAIN ls : ls[i].id = id}
    IN  IF at = {} THEN 0 ELSE CHOOSE i \in at : \A j \in at : j <= i

\* The second loop, from the i-th layer on: a layer with background_for is
\* pushed on the backgroundLayers of the layer it names and its id on
\* layerBackgroundIds; st.threw when the named layer is undefined (the push
\* on it is a TypeError, which ends the constructor).
RECURSIVE LinkBackgroundLayers(_, _)
LinkBackgroundLayers(st, i) ==
    IF i > Len(st.layers) THEN st
    ELSE LET layer == st.layers[i]
             l == layersById(st.layers, layer.background_for)
         IN  IF layer.background_for = NULL THEN LinkBackgroundLayers(st, i + 1)
             ELSE IF l = 0 THEN [st EXCEPT !.threw = TRUE]
             ELSE LinkBackgroundLayers(
                      [st EXCEPT !.layers[l].backgroundLayers = Append(@, layer.id),
                                 !.layerBackgroundIds = Append(@, layer.id)],
                      i + 1)

\* The third loop: the addLayer calls, in order.
\* if (layerBackgroundIds.indexOf(layer.id) < 0) this._layerManager.addLayer(layer)
AddLayers(ls, layerBackgroundIds) ==
    LET added == SelectSeq(ls, LAMBDA layer : ~InIds(layerBackgroundIds, layer.id))
    IN  [i \in DOMAIN added |-> added[i].id]

\* the three loops over flatmap.layers
ConstructLayers(ls) ==
    LET linked == LinkBackgroundLayers(
                      [layers |-> ResetBackgroundLayers(ls),
                       layerBackgroundIds |-> <<>>, threw |-> FALSE], 1)
    IN  [layers |-> linked.layers, threw |-> linked.threw,
         added |-> IF linked.threw THEN <<>>
                   ELSE AddLayers(linked.layers, linked.layerBackgroundIds)]

\* flatmap.layers of the map of this model: its two layers, no background
DeclaredLayers == <<Layer("body", NULL), Layer("nerves", NULL)>>

\* the layers as the constructor leaves them
LayersInit ==
    /\ layers = ConstructLayers(DeclaredLayers).layers
    /\ layerManager = ConstructLayers(DeclaredLayers).added

\* ------------------------------------------- the annotation region control
\* this.__buttons: point, line-string, polygon, trash, by their draw classes
Buttons == <<"mapbox-gl-draw_point", "mapbox-gl-draw_line",
             "mapbox-gl-draw_polygon", "mapbox-gl-draw_trash">>

\* what the button of each class asks of the draw control when clicked
ButtonMode(class) ==
    CASE class = "mapbox-gl-draw_point" -> "draw_point"
      [] class = "mapbox-gl-draw_line" -> "draw_line_string"
      [] class = "mapbox-gl-draw_polygon" -> "draw_polygon"
      [] OTHER -> "trash"

\* The control once constructed: not on a map; container: the buttons in the
\* draw control's container, in order; click: the click listeners on each
\* class of button; keyup, drawCreate: the listeners on window 'keyup' and
\* the handlers of the map's 'draw.create'; mode: the draw control's mode.
NewControl ==
    [added |-> FALSE, container |-> <<>>,
     click |-> [i \in DOMAIN Buttons |-> 0],
     keyup |-> 0, drawCreate |-> 0, mode |-> "simple_select"]

\* __addButton(opt), opt the i-th of __buttons
addButton(ctl, i) ==
    [ctl EXCEPT !.click[i] = @ + 1, !.container = Append(@, Buttons[i])]

\* __removeButton(opt): the listener is taken off opt.elButton and the
\* element out of its parent
removeButton(ctl, i) ==
    [ctl EXCEPT !.click[i] = @ - 1,
                !.container = SelectSeq(@, LAMBDA class : class # Buttons[i])]

\* this.__buttons.forEach((b) => this.__addButton(b)), from the i-th button on
RECURSIVE addButtons(_, _)
addButtons(ctl, i) ==
    IF i > Len(Buttons) THEN ctl ELSE addButtons(addButton(ctl, i), i + 1)

\* this.__buttons.forEach((b) => this.__removeButton(b)), from the i-th button on
RECURSIVE removeButtons(_, _)
removeButtons(ctl, i) ==
    IF i > Len(Buttons) THEN ctl ELSE removeButtons(removeButton(ctl, i), i + 1)

\* onAdd(map): the draw control's own onAdd makes the container, the buttons
\* are added, and a listener is put on window 'keyup' and a handler on the
\* map's 'draw.create'
onAdd(ctl) ==
    LET made == [ctl EXCEPT !.added = TRUE, !.container = <<>>,
                            !.mode = "simple_select"]
        filled == addButtons(made, 1)
    IN  [filled EXCEPT !.keyup = @ + 1, !.drawCreate = @ + 1]

\* onRemove(map): the buttons are removed, then the draw control's own
\* onRemove takes the container off the map
onRemove(ctl) ==
    [removeButtons(ctl, 1) EXCEPT !.added = FALSE]

\* the controller the constructor leaves
Constructed(v, opts, time) ==
    [variant |-> v, options |-> opts,
     featureState |-> FlagAnnotations([f \in Features |-> {}], AnnotatedIds),
     _selectedFeature |-> NULL, _highlightedFeatures |-> <<>>,
     _activeFeature |-> NULL, _modal |-> FALSE, _inQuery |-> FALSE,
     cursor |-> "", _tooltip |-> NoTooltip, menu |-> NoMenu,
     _currentPopup |-> NoPopup, onMap |-> NothingOnMap,
     _lastClickedLocation |-> NULL,
     _lastContextTime |-> 0, _lastTouchTime |-> 0, calls |-> <<>>]

\* flatmap.options of the maps the controller is built on
OptionChoices(v) ==
    IF v = "A"
    THEN {[tooltips |-> FALSE, featureInfo |-> FALSE, searchable |-> FALSE]}
    ELSE {[tooltips |-> TRUE, featureInfo |-> TRUE, searchable |-> FALSE],
          [tooltips |-> FALSE, featureInfo |-> FALSE, searchable |-> FALSE]}

ControllerInit(v) ==
    /\ variant = v
    /\ options \in OptionChoices(v)
    /\ now = Epoch
    /\ LET c == Constructed(v, options, now)
       IN  /\ featureState = c.featureState
           /\ _selectedFeature = c._selectedFeature
           /\ _highlightedFeatures = c._highlightedFeatures
           /\ _activeFeature = c._activeFeature
           /\ _modal = c._modal
           /\ _inQuery = c._inQuery
           /\ cursor = c.cursor
           /\ _tooltip = c._tooltip
           /\ menu = c.menu
           /\ _currentPopup = c._currentPopup
           /\ onMap = c.onMap
           /\ _lastClickedLocation = c._lastClickedLocation
           /\ _lastContextTime = c._lastContextTime
           /\ _lastTouchTime = c._lastTouchTime
           /\ calls = c.calls
    /\ lastOp = "constructor"
    /\ userInterfaceLoadedCallback = "callback"
    /\ LET fired == layerSwitcherActiveCallback_(userInterfaceLoadedCallback, 0)
       IN  /\ _userInterfaceLoadedCallback = fired.callback
           /\ uiLoaded = fired.uiLoaded
    /\ pc = Done(v)
    /\ handlers = Registered(v)
    /\ switched = 0
    /\ inCallback = 0
    /\ control = NewControl
    /\ LayersInit

NoFunctionInputs ==
    /\ bboxes = <<>>
    /\ merged = <<>>
    /\ candidates = <<>>
    /\ smallest = NULL

Init ==
    /\ \E v \in {"A", "B"} : ControllerInit(v)
    /\ NoFunctionInputs

\* ------------------------------------------------------------------ inputs
RECURSIVE SeqsUpTo(_, _)
SeqsUpTo(S, n) ==
    IF n = 0 THEN {<<>>}
    ELSE LET shorter == SeqsUpTo(S, n - 1)
         IN  shorter \cup {Append(q, x) : q \in shorter, x \in S}

\* The scene: the points of the map a pointer event can be at, and what
\* map.queryRenderedFeatures(point) answers there, topmost first.
Scene ==
    {[lngLat |-> "p0",  features |-> <<>>],
     [lngLat |-> "p1",  features |-> <<"f1">>],
     [lngLat |-> "p2",  features |-> <<"f1", "f2">>],
     [lngLat |-> "p3",  features |-> <<"f2", "f1">>],
     [lngLat |-> "p4",  features |-> <<"f2", "f3">>],
     [lngLat |-> "p5",  features |-> <<"f3", "f2">>],
     [lngLat |-> "p6",  features |-> <<"f3", "f1">>],
     [lngLat |-> "p7",  features |-> <<"f2", "f4">>],
     [lngLat |-> "p8",  features |-> <<"f5">>],
     [lngLat |-> "p9",  features |-> <<"f5", "f6">>],
     [lngLat |-> "p10", features |-> <<"f6", "f2">>],
     [lngLat |-> "p11", features |-> <<"f6">>],
     [lngLat |-> "p14", features |-> <<"f8", "f1">>]}

\* what LayerManager.activeLayerNames can answer when an event is handled
ActiveChoices == {Layers, {"body"}}

PointerEvents ==
    {[lngLat |-> p.lngLat, features |-> p.features, active |-> a] :
        p \in Scene, a \in ActiveChoices}

\* the ids a caller of zoomToFeatures names
ZoomIds == {"f1", "f2", UnknownId}
IdLists == SeqsUpTo(ZoomIds, MaxIds)

\* the features drawn at some time, in drawing order
RenderOrder == <<"f1", "f2", "f3", "f4", "f5", "f6">>
Drawn(R) == SelectSeq(RenderOrder, LAMBDA f : f \in R)
IdSet(featureIds) == {featureIds[i] : i \in 1..Len(featureIds)}

\* ----------------------------------------------------------------- actions
Keep == UNCHANGED <<now, bboxes, merged, candidates, smallest, StartupVars, LayerVars, control>>

MouseMoveAtA(event) ==
    /\ variant = "A"
    /\ Commit("mousemove", mouseMoveEvent_A(Self, event))
    /\ Keep

MouseMoveA == \E event \in PointerEvents : MouseMoveAtA(event)

\* what InfoControl.featureInformation(features) can answer
InfoChoices == {NoHtml, <<"info">>}

MouseMoveAtB(event, info) ==
    /\ variant = "B"
    /\ Commit("mousemove", mouseMoveEvent_B(Self, event, info))
    /\ Keep

MouseMoveB == \E event \in PointerEvents, info \in InfoChoices : MouseMoveAtB(event, info)

\* a faulty version: a debounced event moves the debounce window too
contextMenuEvent_Restamping(c, event, time) ==
    LET d == IF c.variant = "A" THEN contextMenuEvent_A(c, event, time)
             ELSE contextMenuEvent_B(c, event, time)
    IN  [d EXCEPT !._lastContextTime = time]

\* contextMenuEvent_(event) of the controller's variant
contextMenuEvent_(c, event, time) ==
    IF c.variant = "A" THEN contextMenuEvent_A(c, event, time)
    ELSE contextMenuEvent_B(c, event, time)

ContextMenuAt(event) ==
    /\ Commit("contextmenu", contextMenuEvent_(Self, event, now))
    /\ Keep

ContextMenuA == variant = "A" /\ \E event \in PointerEvents : ContextMenuAt(event)

ContextMenuB == variant = "B" /\ \E event \in PointerEvents : ContextMenuAt(event)

\* (e) => { this._lastTouchTime = Date.now(); }
touchStart(c, time) == [c EXCEPT !._lastTouchTime = time]

\* (e) => { if (Date.now() > (this._lastTouchTime + 500)) this.contextMenuEvent_(e); }
touchEnd(c, event, time) ==
    IF time > c._lastTouchTime + LongPressMs
    THEN contextMenuEvent_(c, event, time)
    ELSE c

\* a finger is put on the map
TouchStart ==
    /\ Commit("touchstart", touchStart(Self, now))
    /\ Keep

\* the finger is lifted at the event's point
TouchEndAt(event) ==
    /\ Commit("touchend", touchEnd(Self, event, now))
    /\ Keep

\* the user dismisses the open menu (outside click, Escape)
ContextMenuDismiss ==
    /\ menu.open
    /\ Commit("contextMenuClosed", contextMenuClosed_([Self EXCEPT !.menu = NoMenu]))
    /\ Keep

QueryKinds == {"data", "edges", "nodes"}

\* query_(type, event) of the controller's variant
query_(c, type, featureId) ==
    IF c.variant = "A" THEN query_A(c, type, featureId) ELSE query_B(c, type, featureId)

\* the user picks an item of the open menu
MenuAction ==
    /\ menu.open
    /\ \E i \in 1..Len(menu.items) :
         LET item == menu.items[i]
         IN  /\ item.action # "-"
             /\ IF item.action = "zoom"
                THEN Commit("zoomTo", zoomTo_(Self, item.id))
                ELSE Commit("query",
                            IF variant = "A" THEN query_A(Self, item.action, item.id)
                            ELSE query_B(Self, item.action, item.id))
    /\ Keep

\* R: the features drawn when the call is made
ZoomToFeaturesOfA(featureIds, R) ==
    /\ variant = "A"
    /\ Commit("zoomToFeatures", zoomToFeaturesA(Self, featureIds, Drawn(R)))
    /\ Keep

ZoomToFeaturesA ==
    \E featureIds \in IdLists :
       \E R \in SUBSET (IdSet(featureIds) \cap Features) :
          ZoomToFeaturesOfA(featureIds, R)

\* the padding a caller gives; one who gives none gets the default
PaddingChoices == {ZoomPadding, 20}

ZoomToFeaturesOfB(featureIds, padding) ==
    /\ variant = "B"
    /\ Commit("zoomToFeatures", zoomToFeaturesB(Self, featureIds, padding))
    /\ Keep

ZoomToFeaturesB ==
    \E featureIds \in IdLists, padding \in PaddingChoices :
       ZoomToFeaturesOfB(featureIds, padding)

ClearResults ==
    /\ Commit("clearResults", clearResults(Self))
    /\ Keep

PopupContents == {"text", "dom"}

ShowPopupOf(featureId, content, onScreen) ==
    /\ variant = "B"
    /\ Commit("showPopup", showPopup(Self, featureId, content, onScreen))
    /\ Keep

ShowPopup ==
    \E featureId \in Features \cup {UnknownId}, content \in PopupContents,
       onScreen \in BOOLEAN :
        ShowPopupOf(featureId, content, onScreen)

ClickAtA(event) ==
    /\ variant = "A"
    /\ Commit("click", clickEvent_A(Self, event))
    /\ Keep

ClickA == \E event \in PointerEvents : ClickAtA(event)

ClickAtB(event) ==
    /\ variant = "B"
    /\ Commit("click", clickEvent_B(Self, event))
    /\ Keep

ClickB == \E event \in PointerEvents : ClickAtB(event)

\* time passes between two events
Tick(step, limit) ==
    /\ now + step <= limit
    /\ now' = now + step
    /\ UNCHANGED <<variant, options, featureState, _selectedFeature,
                   _highlightedFeatures, _activeFeature, _modal, _inQuery, cursor,
                   _tooltip, menu, _currentPopup, onMap,
                   _lastClickedLocation,
                   _lastContextTime, _lastTouchTime, lastOp, calls,
                   bboxes, merged, candidates, smallest, StartupVars, LayerVars, control>>

CoarseTick == Tick(ContextDebounceMs, Epoch + MaxClock * ContextDebounceMs)

\* the gaps between two events that lie around the debounce threshold
DebounceSteps == {ContextDebounceMs - 1, ContextDebounceMs, ContextDebounceMs + 1}
DebounceTick == \E step \in DebounceSteps : Tick(step, Epoch + MaxGap)

\* the gaps that lie around the long-press and the debounce thresholds
TouchSteps == {ContextDebounceMs - 1, ContextDebounceMs,
               LongPressMs - 1, LongPressMs, LongPressMs + 1}
TouchTick == \E step \in TouchSteps : Tick(step, Epoch + MaxPress)

\* Pointer interaction: hover, selection, context menu, menu actions, click.
Next ==
    \/ MouseMoveA
    \/ MouseMoveB
    \/ ContextMenuA
    \/ ContextMenuB
    \/ ContextMenuDismiss
    \/ MenuAction
    \/ ClickA
    \/ ClickB
    \/ CoarseTick

Spec == Init /\ [][Next]_vars

\* Highlighting: zoom to features, popups, clearing results, and the menu
\* actions that highlight or clear.
NextHighlight ==
    \/ ContextMenuA
    \/ ContextMenuB
    \/ ContextMenuDismiss
    \/ MenuAction
    \/ ZoomToFeaturesA
    \/ ZoomToFeaturesB
    \/ ClearResults
    \/ ShowPopup

SpecHighlight == Init /\ [][NextHighlight]_vars

\* Context-menu events on a clock that resolves the debounce threshold.
NextDebounce ==
    \/ ContextMenuA
    \/ ContextMenuB
    \/ ContextMenuDismiss
    \/ DebounceTick

SpecDebounce == Init /\ [][NextDebounce]_vars

\* Touch gestures: a press, its release, the contextmenu event the browser
\* may synthesize for it, on a point with an annotated polygon and on none.
TouchEvents == {event \in PointerEvents :
                   event.lngLat \in {"p0", "p2"} /\ event.active = Layers}

TouchEnd == \E event \in TouchEvents : TouchEndAt(event)

TouchContextMenu == \E event \in TouchEvents : ContextMenuAt(event)

NextTouch ==
    \/ TouchStart
    \/ TouchEnd
    \/ TouchContextMenu
    \/ ContextMenuDismiss
    \/ TouchTick

SpecTouch == Init /\ [][NextTouch]_vars

\* The bounds merge on its own: three boxes, then their merges.
Boxes ==
    {b \in (0..MaxCoord) \X (0..MaxCoord) \X (0..MaxCoord) \X (0..MaxCoord) :
        b[1] <= b[3] /\ b[2] <= b[4]}

InitBounds ==
    /\ ControllerInit("B")
    /\ options.tooltips
    /\ bboxes \in Boxes \X Boxes \X Boxes
    /\ merged = <<>>
    /\ candidates = <<>>
    /\ smallest = NULL

ExpandBoundsStep ==
    /\ merged = <<>>
    /\ merged' = [ab   |-> expandBounds(bboxes[1], bboxes[2]),
                  ba   |-> expandBounds(bboxes[2], bboxes[1]),
                  ab_c |-> expandBounds(expandBounds(bboxes[1], bboxes[2]), bboxes[3]),
                  a_bc |-> expandBounds(bboxes[1], expandBounds(bboxes[2], bboxes[3])),
                  aa   |-> expandBounds(bboxes[1], bboxes[1])]
    /\ UNCHANGED <<variant, options, featureState, _selectedFeature,
                   _highlightedFeatures, _activeFeature, _modal, _inQuery, cursor,
                   _tooltip, menu, _currentPopup, onMap,
                   _lastClickedLocation,
                   _lastContextTime, _lastTouchTime, now, lastOp, calls,
                   bboxes, candidates, smallest, StartupVars, LayerVars, control>>

SpecBounds == InitBounds /\ [][ExpandBoundsStep]_vars

\* The smallest-polygon search on its own: a candidate list, then its result.
Unset == "unset"

InitSmallest ==
    /\ \E v \in {"A", "B"} : ControllerInit(v)
    /\ bboxes = <<>>
    /\ merged = <<>>
    /\ candidates \in SeqsUpTo(Features, MaxLen)
    /\ smallest = Unset

SmallestStep ==
    /\ smallest = Unset
    /\ smallest' = smallestAnnotatedPolygonFeature_(Self, candidates)
    /\ UNCHANGED <<variant, options, featureState, _selectedFeature,
                   _highlightedFeatures, _activeFeature, _modal, _inQuery, cursor,
                   _tooltip, menu, _currentPopup, onMap,
                   _lastClickedLocation,
                   _lastContextTime, _lastTouchTime, now, lastOp, calls,
                   bboxes, merged, candidates, StartupVars, LayerVars, control>>

SpecSmallest == InitSmallest /\ [][SmallestStep]_vars

\* The context menu and every route by which it closes.  An open menu is
\* eventually closed: by the user dismissing it or picking one of its items.
CloseMenu == ContextMenuDismiss \/ MenuAction

NextModal ==
    \/ ContextMenuA
    \/ ContextMenuB
    \/ ContextMenuDismiss
    \/ MenuAction
    \/ CoarseTick

SpecModal == Init /\ [][NextModal]_vars /\ WF_vars(CloseMenu)

\* Every operation that sets or clears a flag, on a few points of the scene
\* with all layers active: over nothing (p0), over f1 and f2 (p2), over f3
\* and f1 (p6), over f2 and the labelled f4 (p7), over the symbol f5 and the
\* labelled f6 (p9).
FlagPoints == {"p0", "p2", "p6", "p7", "p9"}
FlagEvents == {event \in PointerEvents :
                  event.lngLat \in FlagPoints /\ event.active = Layers}

\* the id lists given to zoomToFeatures: none, two features, one feature
\* twice, an id without annotation; and the ids given to showPopup
FlagIdLists == {<<>>, <<"f1", "f2">>, <<"f2", "f2">>, <<UnknownId>>}
FlagPopupIds == {"f1", "f4", UnknownId}

NextFlags ==
    \/ \E event \in FlagEvents : MouseMoveAtA(event)
    \/ \E event \in FlagEvents : MouseMoveAtB(event, NoHtml)
    \/ \E event \in FlagEvents : ContextMenuAt(event)
    \/ ContextMenuDismiss
    \/ MenuAction
    \/ \E event \in FlagEvents : ClickAtA(event)
    \/ \E event \in FlagEvents : ClickAtB(event)
    \/ \E featureIds \in FlagIdLists :
          ZoomToFeaturesOfA(featureIds, IdSet(featureIds) \cap Features)
    \/ \E featureIds \in FlagIdLists : ZoomToFeaturesOfB(featureIds, ZoomPadding)
    \/ ClearResults
    \/ \E featureId \in FlagPopupIds : ShowPopupOf(featureId, "text", TRUE)
    \/ CoarseTick

SpecFlags == Init /\ [][NextFlags]_vars

\* Clicks, among them clicks on points with several symbol features, between
\* context menus, menu actions and zooms.
ClickEvents ==
    FlagEvents \cup
    {[lngLat |-> "p8", features |-> <<"f5">>, active |-> Layers],
     [lngLat |-> "p12", features |-> <<"f7", "f2", "f5">>, active |-> Layers],
     [lngLat |-> "p13", features |-> <<"f5", "f7">>, active |-> Layers]}

NextClick ==
    \/ \E event \in FlagEvents : ContextMenuAt(event)
    \/ ContextMenuDismiss
    \/ MenuAction
    \/ \E featureIds \in FlagIdLists : ZoomToFeaturesOfB(featureIds, ZoomPadding)
    \/ \E event \in ClickEvents : ClickAtA(event)
    \/ \E event \in ClickEvents : ClickAtB(event)

SpecClick == Init /\ [][NextClick]_vars

\* The transient overlays: hover tooltips and popups, and the clicks that
\* move the place a popup is put at.
NextOverlay ==
    \/ MouseMoveA
    \/ MouseMoveB
    \/ ShowPopup
    \/ \E event \in ClickEvents : ClickAtB(event)

SpecOverlay == Init /\ [][NextOverlay]_vars

\* Construction step by step, then the layer switcher's callback.

\* the constructor has assigned its fields (the callback reference among them)
FieldsAssigned ==
    /\ \E v \in {"A", "B"} :
          /\ variant = v
          /\ options \in OptionChoices(v)
    /\ now = Epoch
    /\ featureState = [f \in Features |-> {}]
    /\ _selectedFeature = NULL
    /\ _highlightedFeatures = <<>>
    /\ _activeFeature = NULL
    /\ _modal = FALSE
    /\ _inQuery = FALSE
    /\ cursor = ""
    /\ _tooltip = NoTooltip
    /\ menu = NoMenu
    /\ _currentPopup = NoPopup
    /\ onMap = NothingOnMap
    /\ _lastClickedLocation = NULL
    /\ _lastContextTime = Undefined
    /\ _lastTouchTime = Undefined
    /\ calls = <<>>
    /\ lastOp = "constructor"
    /\ userInterfaceLoadedCallback \in {NULL} \cup Callbacks
    /\ _userInterfaceLoadedCallback = userInterfaceLoadedCallback
    /\ uiLoaded = 0
    /\ handlers = <<>>
    /\ switched = 0
    /\ inCallback = 0
    /\ control = NewControl
    /\ NoFunctionInputs

\* the layers are added and the constructor is about to flag the annotations
InitStartup ==
    /\ FieldsAssigned
    /\ pc = 1
    /\ LayersInit

\* the statement the constructor is at
Step ==
    IF pc = 0 THEN "layers"
    ELSE IF pc < Done(variant) THEN StartupSteps(variant)[pc] ELSE "done"

Unflagged == {id \in AnnotatedIds : "annotated" \notin featureState[id]}

KeepController ==
    UNCHANGED <<variant, options, _selectedFeature, _highlightedFeatures,
                _activeFeature, _modal, _inQuery, cursor, _tooltip, menu,
                _currentPopup, onMap,
                _lastClickedLocation, now, calls,
                bboxes, merged, candidates, smallest, userInterfaceLoadedCallback,
                LayerVars, control>>

\* one turn of the loop over flatmap.annotations, in the table's order
FlagAnnotation ==
    /\ Step = "flag"
    /\ \E id \in Unflagged :
          /\ featureState' = FlagAnnotations(featureState, {id})
          /\ pc' = IF Unflagged = {id} THEN pc + 1 ELSE pc
    /\ KeepController
    /\ UNCHANGED <<_lastContextTime, _lastTouchTime, handlers, lastOp,
                   _userInterfaceLoadedCallback, uiLoaded, switched, inCallback>>

\* map.on(event, handler), with the assignment that precedes it
RegisterHandler ==
    /\ Step \in HandlerEvents
    /\ handlers' = Append(handlers, Step)
    /\ _lastContextTime' = IF Step = "contextmenu" THEN 0 ELSE _lastContextTime
    /\ _lastTouchTime' = IF Step = "touchstart" THEN 0 ELSE _lastTouchTime
    /\ pc' = pc + 1
    /\ KeepController
    /\ UNCHANGED <<featureState, lastOp, _userInterfaceLoadedCallback, uiLoaded,
                   switched, inCallback>>

\* the last statement of the constructor; an exception of the callback
\* leaves the constructor there, the reference still set
UserInterfaceLoaded ==
    /\ Step = "uiLoaded"
    /\ lastOp = "constructor"
    /\ LET fired == layerSwitcherActiveCallback_(_userInterfaceLoadedCallback, uiLoaded)
       IN  /\ _userInterfaceLoadedCallback' = fired.callback
           /\ uiLoaded' = fired.uiLoaded
           /\ pc' = IF fired.threw THEN pc ELSE pc + 1
           /\ lastOp' = IF fired.threw THEN "Error" ELSE lastOp
    /\ KeepController
    /\ UNCHANGED <<featureState, _lastContextTime, _lastTouchTime, handlers, switched, inCallback>>

\* the layer switcher reports that it is active, the constructor having
\* returned or having been left by an exception of the callback (the object
\* exists: the callback was given it); an exception of the callback goes to
\* the caller, the reference still set
LayerSwitcherActive ==
    /\ Step = "done" \/ (Step = "uiLoaded" /\ lastOp = "Error")
    /\ switched < MaxSwitches
    /\ switched' = switched + 1
    /\ LET fired == layerSwitcherActiveCallback_(_userInterfaceLoadedCallback, uiLoaded)
       IN  /\ _userInterfaceLoadedCallback' = fired.callback
           /\ uiLoaded' = fired.uiLoaded
           /\ lastOp' = IF fired.threw THEN "Error" ELSE lastOp
    /\ KeepController
    /\ UNCHANGED <<featureState, _lastContextTime, _lastTouchTime, handlers, pc,
                   inCallback>>

NextStartup ==
    \/ FlagAnnotation
    \/ RegisterHandler
    \/ UserInterfaceLoaded
    \/ LayerSwitcherActive

SpecStartup == InitStartup /\ [][NextStartup]_vars

\* The same with the UI-loaded callback as code that runs: it is entered by
\* the if-statement of the constructor or of layerSwitcherActiveCallback_,
\* its body runs (a re-entering callback calls layerSwitcherActiveCallback_
\* on the controller it is given, a throwing one throws), and the
\* assignment of null follows its return.

\* if (this._userInterfaceLoadedCallback !== null) this._userInterfaceLoadedCallback(this)
CallbackEntered ==
    /\ _userInterfaceLoadedCallback # NULL
    /\ uiLoaded' = uiLoaded + 1
    /\ inCallback' = inCallback + 1
    /\ UNCHANGED _userInterfaceLoadedCallback

\* the last statement of the constructor, or the layer switcher reporting
\* that it is active, when no callback is running
EnterCallback ==
    /\ inCallback = 0
    /\ \/ Step = "uiLoaded" /\ lastOp = "constructor" /\ UNCHANGED switched
       \/ /\ Step = "done" \/ (Step = "uiLoaded" /\ lastOp = "Error")
          /\ switched < MaxSwitches
          /\ switched' = switched + 1
    /\ CallbackEntered
    /\ KeepController
    /\ UNCHANGED <<featureState, _lastContextTime, _lastTouchTime, handlers, pc,
                   lastOp>>

\* the if-statement finds no callback: the constructor was given none, or
\* the reference is null by now
SkipCallback ==
    /\ inCallback = 0
    /\ _userInterfaceLoadedCallback = NULL
    /\ \/ Step = "uiLoaded" /\ pc' = pc + 1 /\ UNCHANGED switched
       \/ Step = "done" /\ switched < MaxSwitches /\ switched' = switched + 1
          /\ UNCHANGED pc
    /\ KeepController
    /\ UNCHANGED <<featureState, _lastContextTime, _lastTouchTime, handlers, lastOp,
                   _userInterfaceLoadedCallback, uiLoaded, inCallback>>

\* the body of a re-entering callback, in its first activation: it calls
\* layerSwitcherActiveCallback_ on the controller, the reference still set
ReenterCallback ==
    /\ inCallback = 1
    /\ _userInterfaceLoadedCallback = "reentering"
    /\ CallbackEntered
    /\ KeepController
    /\ UNCHANGED <<featureState, _lastContextTime, _lastTouchTime, handlers, pc,
                   switched, lastOp>>

\* the callback returns: this._userInterfaceLoadedCallback = null
ReturnFromCallback ==
    /\ inCallback > 0
    /\ _userInterfaceLoadedCallback # "throwing"
    /\ ~(_userInterfaceLoadedCallback = "reentering" /\ inCallback = 1)
    /\ _userInterfaceLoadedCallback' = NULL
    /\ inCallback' = inCallback - 1
    /\ pc' = IF Step = "uiLoaded" /\ inCallback = 1 THEN pc + 1 ELSE pc
    /\ KeepController
    /\ UNCHANGED <<featureState, _lastContextTime, _lastTouchTime, handlers,
                   uiLoaded, switched, lastOp>>

\* the body of a throwing callback: the exception leaves the statement
\* before the assignment of null, and the constructor with it
ThrowFromCallback ==
    /\ inCallback > 0
    /\ _userInterfaceLoadedCallback = "throwing"
    /\ inCallback' = 0
    /\ lastOp' = "Error"
    /\ KeepController
    /\ UNCHANGED <<featureState, _lastContextTime, _lastTouchTime, handlers,
                   _userInterfaceLoadedCallback, uiLoaded, switched, pc>>

NextReentrant ==
    \/ FlagAnnotation
    \/ RegisterHandler
    \/ EnterCallback
    \/ SkipCallback
    \/ ReenterCallback
    \/ ReturnFromCallback
    \/ ThrowFromCallback

SpecReentrant == InitStartup /\ [][NextReentrant]_vars

\* The annotation region control: put on the map and taken off it by
\* map.addControl and map.removeControl, its buttons clicked in between.
KeepAllButControl ==
    UNCHANGED <<variant, options, featureState, _selectedFeature,
                _highlightedFeatures, _activeFeature, _modal, _inQuery, cursor,
                _tooltip, menu, _currentPopup, onMap, _lastClickedLocation,
                _lastContextTime, _lastTouchTime, now, lastOp, calls, bboxes,
                merged, candidates, smallest, StartupVars, LayerVars>>

OnAdd ==
    /\ ~control.added
    /\ control.keyup < MaxCycles
    /\ control' = onAdd(control)
    /\ KeepAllButControl

OnRemove ==
    /\ control.added
    /\ control' = onRemove(control)
    /\ KeepAllButControl

\* a button in the container is clicked: its listener runs its action
ButtonClick ==
    /\ \E i \in DOMAIN control.container :
          /\ \E b \in DOMAIN Buttons :
                Buttons[b] = control.container[i] /\ control.click[b] > 0
          /\ control' = [control EXCEPT !.mode = ButtonMode(control.container[i])]
    /\ KeepAllButControl

NextControl ==
    \/ OnAdd
    \/ OnRemove
    \/ ButtonClick

SpecControl == Init /\ [][NextControl]_vars

\* Construction from the loops over flatmap.layers on, for the layer lists a
\* flatmap can declare: ids are distinct, background_for is absent or an id.
LayerIds == Layers \cup {"base"}

LayerDeclarations ==
    {ls \in SeqsUpTo({Layer(id, for) : id \in LayerIds, for \in LayerIds \cup {NULL}},
                     MaxLayers) :
        \A i, j \in DOMAIN ls : i # j => ls[i].id # ls[j].id}

InitLayers ==
    /\ FieldsAssigned
    /\ pc = 0
    /\ layers \in LayerDeclarations
    /\ layerManager = <<>>

\* the three loops; a TypeError in the second ends the constructor
BuildLayers ==
    /\ Step = "layers"
    /\ lastOp = "constructor"
    /\ LET built == ConstructLayers(layers)
       IN  /\ layers' = built.layers
           /\ layerManager' = built.added
           /\ pc' = IF built.threw THEN pc ELSE pc + 1
           /\ lastOp' = IF built.threw THEN "TypeError" ELSE lastOp
    /\ UNCHANGED <<variant, options, featureState, _selectedFeature,
                   _highlightedFeatures, _activeFeature, _modal, _inQuery, cursor,
                   _tooltip, menu, _currentPopup, onMap,
                   _lastClickedLocation,
                   _lastContextTime, _lastTouchTime, now, calls, bboxes, merged,
                   candidates, smallest, userInterfaceLoadedCallback,
                   _userInterfaceLoadedCallback, uiLoaded, handlers, switched,
                   inCallback, control>>

NextLayers ==
    \/ BuildLayers
    \/ NextStartup

SpecLayers == InitLayers /\ [][NextLayers]_vars

\* ================================================================== properties
Flagged(flag) == {f \in Features : flag \in featureState[f]}
FlaggedIn(c, flag) == {f \in Features : flag \in c.featureState[f]}
ShowCalls(cs) == Cardinality({i \in 1..Len(cs) : cs[i].op = "contextMenu.show"})
FitCalls(cs) == SelectSeq(cs, LAMBDA call : call.op = "fitBounds")

\* C1: selection exclusivity.  At most one feature carries the 'selected'
\* flag, it is _selectedFeature, and a call selectFeature_(f) made in any
\* reachable state leaves f the one flagged feature and _selectedFeature = f.
C1_SelectionExclusive ==
    /\ Cardinality(Flagged("selected")) <= 1
    /\ Flagged("selected") \subseteq {_selectedFeature}
    /\ \A f \in Features :
          LET c == selectFeature_(Self, f)
          IN  FlaggedIn(c, "selected") = {f} /\ c._selectedFeature = f

\* a second menu was opened on f4 while another feature had been selected before
C1_Witness ==
    /\ lastOp = "contextmenu"
    /\ _selectedFeature = "f4"
    /\ Flagged("selected") = {"f4"}
    /\ _lastContextTime > Epoch

\* C2: highlight set integrity.  unhighlightFeatures_() called in any
\* reachable state (nothing, several or the same feature twice highlighted)
\* leaves no 'highlighted' flag and an empty _highlightedFeatures; so does
\* clearResults(), which is that call.
C2_UnhighlightClearsAll ==
    /\ LET c == unhighlightFeatures_(Self)
       IN  FlaggedIn(c, "highlighted") = {} /\ c._highlightedFeatures = <<>>
    /\ lastOp = "clearResults" =>
          Flagged("highlighted") = {} /\ _highlightedFeatures = <<>>

\* two features are highlighted, which unhighlightFeatures_ then has to clear
C2_Witness ==
    /\ Len(_highlightedFeatures) = 2
    /\ Flagged("highlighted") = {"f1", "f2"}
    /\ LET c == unhighlightFeatures_(Self)
       IN  FlaggedIn(c, "highlighted") = {} /\ c._highlightedFeatures = <<>>

\* C3: modal suspension.  While _modal is true a mousemove event, in either
\* version of the controller, leaves the tooltip, the selected feature, its
\* flag and the cursor as they were.
C3_ModalSuspendsHover ==
    [][(_modal /\ (MouseMoveA \/ MouseMoveB))
         => /\ UNCHANGED <<_tooltip, _selectedFeature, cursor>>
            /\ Flagged("selected")' = Flagged("selected")]_vars

\* the event lands on an annotated polygon of an active layer
LandsOnAnnotatedPolygon(event) ==
    \E i \in 1..Len(event.features) :
       LET f == event.features[i]
       IN  /\ SourceLayer(f) \in event.active
           /\ HasId(f)
           /\ GeometryType(f) \in {"Polygon", "MultiPolygon"}
           /\ f \in AnnotatedIds

\* C4: context-menu debounce.  After a contextmenu event that showed the
\* menu, a second contextmenu event on an annotated polygon shows nothing
\* when it comes less than 100 ms later (one show for the two), and shows
\* the menu again when it comes 101 ms later or more (two shows).
C4_Debounce ==
    [][\A event \in PointerEvents :
          (/\ lastOp = "contextmenu"
           /\ ShowCalls(calls) = 1
           /\ LandsOnAnnotatedPolygon(event)
           /\ ContextMenuAt(event))
          => /\ now < _lastContextTime + 100 => ShowCalls(calls') = 0
             /\ now >= _lastContextTime + 101 => ShowCalls(calls') = 1]_vars

\* a second event, 99 ms after the one that opened the menu, showed nothing
C4_Witness ==
    /\ lastOp = "contextmenu"
    /\ calls = <<>>
    /\ menu.open
    /\ now = _lastContextTime + 99

\* C5: the smallest annotated polygon.  The result is null iff no candidate
\* is a polygon-type feature flagged 'annotated'; otherwise it is the first
\* candidate of least area among those.
EligibleAt(i) ==
    /\ GeometryType(candidates[i]) \in {"Polygon", "MultiPolygon"}
    /\ "annotated" \in featureState[candidates[i]]

C5_SmallestAnnotatedPolygon ==
    smallest # Unset =>
       LET E == {i \in 1..Len(candidates) : EligibleAt(i)}
       IN  /\ smallest = NULL <=> E = {}
           /\ E # {} =>
                \E i \in E :
                   /\ candidates[i] = smallest
                   /\ \A j \in E :
                         /\ Area(candidates[j]) >= Area(candidates[i])
                         /\ Area(candidates[j]) = Area(candidates[i]) => j >= i

\* f2 and f3 have the same area, f2 comes first and is the result
C5_Witness ==
    /\ candidates = <<"f1", "f2", "f3">>
    /\ smallest = "f2"

\* C6: the bounds merge is commutative, associative and idempotent, and
\* each component of the result is the least of the two minima, or the
\* greatest of the two maxima.
C6_ExpandBoundsAlgebra ==
    merged # <<>> =>
       LET a == bboxes[1]
           b == bboxes[2]
       IN  /\ merged.ab = merged.ba
           /\ merged.ab_c = merged.a_bc
           /\ merged.aa = a
           /\ \A i \in 1..2 :
                 merged.ab[i] \in {a[i], b[i]} /\ merged.ab[i] <= a[i] /\ merged.ab[i] <= b[i]
           /\ \A i \in 3..4 :
                 merged.ab[i] \in {a[i], b[i]} /\ merged.ab[i] >= a[i] /\ merged.ab[i] >= b[i]

\* two boxes whose merge is neither of them
C6_Witness ==
    /\ merged # <<>>
    /\ merged.ab # bboxes[1]
    /\ merged.ab # bboxes[2]

\* the event is over exactly two polygons, both annotated and on active
\* layers, `small` of less area than `large`
OverTwoPolygons(event, small, large) ==
    /\ Len(event.features) = 2
    /\ {event.features[1], event.features[2]} = {small, large}
    /\ \A f \in {small, large} :
          /\ SourceLayer(f) \in event.active
          /\ GeometryType(f) \in {"Polygon", "MultiPolygon"}
          /\ "annotated" \in featureState[f]
    /\ Area(small) < Area(large)

\* `small` is selected, `large` is not, and a tooltip shows small's label
HoverShows(small, large) ==
    /\ _selectedFeature = small
    /\ "selected" \in featureState[small]
    /\ "selected" \notin featureState[large]
    /\ _tooltip.shown
    /\ \E i \in 1..Len(_tooltip.content) :
          _tooltip.content[i] = Annotation(small).label

\* C7 as stated: in A, not modal and not annotating, a mousemove over two
\* overlapping annotated polygons of different areas ends with the smaller
\* one selected and a tooltip that contains its label.
C7_HoverSelectsSmaller ==
    [][\A event \in PointerEvents :
          (/\ ~_modal
           /\ ~annotating
           /\ Len(event.features) = 2
           /\ MouseMoveAtA(event))
          => \A small, large \in AnnotatedIds :
                OverTwoPolygons(event, small, large) => HoverShows(small, large)']_vars

\* C7 as amended: the same, for a smaller polygon whose annotation has a
\* non-empty model list and a non-empty label.  (Of a smaller polygon with
\* models and no label, as f1 under f8, the tooltip shows the first model.)
C7_HoverSelectsSmallerWithModels ==
    [][\A event \in PointerEvents :
          (/\ ~_modal
           /\ ~annotating
           /\ Len(event.features) = 2
           /\ MouseMoveAtA(event))
          => \A small, large \in AnnotatedIds :
                (/\ OverTwoPolygons(event, small, large)
                 /\ Len(Annotation(small).models) > 0
                 /\ Annotation(small).label # "")
                => HoverShows(small, large)']_vars

\* f1 is selected and its tooltip shown, and a mousemove over f1 (area 100)
\* and f2 (area 40), both annotated and on active layers, selects f2,
\* unselects f1 and shows f2's label
C7_Witness ==
    /\ variant = "A"
    /\ ~_modal
    /\ _selectedFeature = "f1"
    /\ _tooltip.shown
    /\ LET event == [lngLat |-> "p2", features |-> <<"f1", "f2">>, active |-> Layers]
           c == mouseMoveEvent_A(Self, event)
       IN  /\ event \in PointerEvents
           /\ OverTwoPolygons(event, "f2", "f1")
           /\ Len(Annotation("f2").models) > 0
           /\ Annotation("f2").label = "B"
           /\ c._selectedFeature = "f2"
           /\ "selected" \in c.featureState["f2"]
           /\ "selected" \notin c.featureState["f1"]
           /\ c._tooltip = [shown |-> TRUE, content |-> <<"B">>]

\* the union of the annotations' boxes of a list of ids
RECURSIVE LeastOf(_, _, _)
LeastOf(ids, k, sign) ==
    LET v == sign * Annotation(Head(ids)).bounds[k]
    IN  IF Len(ids) = 1 THEN v
        ELSE LET w == LeastOf(Tail(ids), k, sign) IN IF v < w THEN v ELSE w

UnionOfBounds(ids) ==
    <<LeastOf(ids, 1, 1), LeastOf(ids, 2, 1), -LeastOf(ids, 3, -1), -LeastOf(ids, 4, -1)>>

\* exactly the features of the ids are highlighted, and one fitBounds call
\* was made, to the union of their boxes, with the padding and no animation
ZoomedTo(ids, padding) ==
    /\ IdSet(_highlightedFeatures) = IdSet(ids)
    /\ Flagged("highlighted") = IdSet(ids)
    /\ FitCalls(calls) = <<[op |-> "fitBounds", bbox |-> UnionOfBounds(ids),
                            padding |-> padding, animate |-> FALSE]>>

AllAnnotated(ids) == ids # <<>> /\ \A i \in 1..Len(ids) : ids[i] \in AnnotatedIds
NoneAnnotated(ids) == \A i \in 1..Len(ids) : ids[i] \notin AnnotatedIds

\* C8: zoomToFeatures(ids), all ids having annotation records, leaves
\* exactly the features of the ids highlighted and makes one fitBounds call
\* to the union of their boxes, with the padding given (100 when none is)
\* and animate = false.
C8_ZoomToFeatures ==
    [][\A ids \in IdLists :
          AllAnnotated(ids) =>
             /\ \A R \in SUBSET IdSet(ids) :
                   ZoomToFeaturesOfA(ids, R) => ZoomedTo(ids, 100)'
             /\ \A padding \in PaddingChoices :
                   ZoomToFeaturesOfB(ids, padding) => ZoomedTo(ids, padding)']_vars

\* the actions the items of the menu of feature `id` are to have, in order
ExpectedActions(id) ==
    LET data == Len(Annotation(id).models) > 0
        queryable == layerQueryable(Annotation(id).layer)
    IN  (IF data THEN <<"data">> ELSE <<>>)
        \o (IF queryable THEN <<"edges", "nodes">> ELSE <<>>)
        \o (IF data \/ queryable THEN <<"-">> ELSE <<>>)
        \o <<"zoom">>

\* the menu is open with the items expected for `id`, each for that id, and
\* the handler's last call was the show of these items
MenuShownFor(id) ==
    /\ menu.open
    /\ [i \in 1..Len(menu.items) |-> menu.items[i].action] = ExpectedActions(id)
    /\ \A i \in 1..Len(menu.items) :
          menu.items[i].action # "-" => menu.items[i].id = id
    /\ calls # <<>>
    /\ calls[Len(calls)].op = "contextMenu.show"
    /\ calls[Len(calls)].items = menu.items

\* C9: a contextmenu event that is not debounced and resolves a feature
\* shows the menu with: 'query data' iff the annotation has models, then
\* 'find edges' and 'find nodes and edges' iff its layer is queryable, then a
\* separator iff one of these was added, then 'Zoom to...'.
C9_MenuItems ==
    [][\A event \in PointerEvents :
          (/\ now >= _lastContextTime + 100
           /\ LandsOnAnnotatedPolygon(event)
           /\ ContextMenuAt(event))
          => MenuShownFor(smallestAnnotatedPolygonAtEvent_(Self, event))']_vars

\* the menu of f3 (no models, layer not queryable) is the one item 'Zoom to...'
C9_Witness ==
    /\ lastOp = "contextmenu"
    /\ _selectedFeature = "f3"
    /\ menu.open
    /\ Len(menu.items) = 1
    /\ menu.items[1].action = "zoom"

\* C10: zoomToFeatures makes no fitBounds call when the id list is empty,
\* nor when none of its ids has a feature or annotation record.
C10_NoFitWhenNoneResolve ==
    [][\A ids \in IdLists :
          NoneAnnotated(ids) =>
             /\ \A R \in SUBSET (IdSet(ids) \cap Features) :
                   ZoomToFeaturesOfA(ids, R) => FitCalls(calls') = <<>>
             /\ \A padding \in PaddingChoices :
                   ZoomToFeaturesOfB(ids, padding) => FitCalls(calls') = <<>>]_vars

\* the fields showPopup may touch: popup, highlights and their flags; the
\* camera is moved by calls only
PopupView == <<_currentPopup, _highlightedFeatures, featureState>>

\* C11: showPopup(featureId, content, options) in B changes nothing when
\* featureId has no annotation (popup, highlighted set and flags unchanged,
\* no call that moves the camera); when it has one, the highlighted set is
\* afterwards exactly that one feature, whatever was highlighted before.
C11_ShowPopup ==
    [][\A featureId \in Features \cup {UnknownId} :
          \A content \in PopupContents, onScreen \in BOOLEAN :
             ShowPopupOf(featureId, content, onScreen)
             => IF featureId \in AnnotatedIds
                THEN /\ _highlightedFeatures' = <<featureId>>
                     /\ Flagged("highlighted")' = {featureId}
                ELSE /\ UNCHANGED PopupView
                     /\ calls' = <<>>]_vars

\* a popup on f2 replaced an earlier popup; f2 alone is highlighted
C11_Witness ==
    /\ lastOp = "showPopup"
    /\ _highlightedFeatures = <<"f2">>
    /\ Flagged("highlighted") = {"f2"}
    /\ _currentPopup.attached
    /\ calls # <<>>
    /\ calls[1].op = "popup.remove"

\* C12: a callback given to the constructor is invoked exactly once over
\* the constructor and any number of layerSwitcherActiveCallback_ calls
\* after it, and the stored reference is null afterwards; when none is
\* given, nothing is invoked.  (It holds of a callback that returns without
\* touching the controller; a re-entering callback is invoked twice by the
\* constructor, and a throwing one again at every later call.)
C12_UserInterfaceLoadedOnce ==
    /\ uiLoaded <= 1
    /\ userInterfaceLoadedCallback = NULL => uiLoaded = 0
    /\ Step = "done" =>
          /\ _userInterfaceLoadedCallback = NULL
          /\ uiLoaded = IF userInterfaceLoadedCallback # NULL THEN 1 ELSE 0

\* every annotation has its flags: 'annotated', and 'annotation-error' when
\* the annotation has an error
AllAnnotationsFlagged ==
    \A id \in AnnotatedIds :
       /\ "annotated" \in featureState[id]
       /\ Annotation(id).error => "annotation-error" \in featureState[id]

\* C20: during construction every annotation has its flags before the first
\* event handler is registered on the map, and the UI-loaded callback is
\* invoked only when all five handlers are registered.
C20_StartupOrder ==
    /\ handlers # <<>> => AllAnnotationsFlagged
    /\ uiLoaded > 0 => {handlers[i] : i \in 1..Len(handlers)} = HandlerEvents

\* the first handler has just been registered: the flags are all set, f3's
\* error flag among them, and the callback has not been invoked yet
C20_Witness ==
    /\ Len(handlers) = 1
    /\ Step # "done"
    /\ "annotation-error" \in featureState["f3"]
    /\ Flagged("annotated") = AnnotatedIds
    /\ userInterfaceLoadedCallback # NULL
    /\ uiLoaded = 0

OneOrNone(feature) == IF feature = NULL THEN {} ELSE {feature}

\* C13: between event handlers, after any sequence of mousemove, click,
\* contextmenu, menu actions, zoomToFeatures, showPopup and clearResults,
\* the features flagged 'selected' are exactly {_selectedFeature} (none when
\* it is null), those flagged 'highlighted' are exactly the members of
\* _highlightedFeatures, and in B those flagged 'active' are exactly
\* {_activeFeature}.
C13_FlagsAgreeWithSets ==
    /\ Flagged("selected") = OneOrNone(_selectedFeature)
    /\ Flagged("highlighted") = IdSet(_highlightedFeatures)
    /\ variant = "B" => Flagged("active") = OneOrNone(_activeFeature)

\* in B: f2 selected by a context menu, f1 and f2 highlighted by
\* zoomToFeatures, f6 made active by the pointer
C13_Witness ==
    /\ variant = "B"
    /\ lastOp = "mousemove"
    /\ _selectedFeature = "f2"
    /\ _highlightedFeatures = <<"f1", "f2">>
    /\ _activeFeature = "f6"
    /\ featureState["f2"] = {"annotated", "selected", "highlighted"}
    /\ "active" \in featureState["f6"]

\* C14: between event handlers the modal flag is true iff a context menu is
\* open, the menu's close callback firing once per show/close cycle (on
\* dismissal, on hide(), and on a show() that replaces an open menu).
C14_ModalIffMenuOpen == _modal <=> menu.open

\* C15: whenever the modal flag is true it is eventually false, given that
\* an open menu is eventually closed (by dismissal, by 'Zoom to...' or by a
\* query action) and delivers its close callback: no route of closing
\* leaves the controller modal.
C15_ModalIsLeft == _modal ~> ~_modal

\* the menu was closed by its 'Zoom to...' item and the flag is down
C15_Witness ==
    /\ lastOp = "zoomTo"
    /\ ~menu.open
    /\ ~_modal
    /\ calls # <<>>
    /\ calls[1].op = "contextMenu.hide"

\* what query_ is to leave: the menu hidden, nothing highlighted, not modal
AfterQuery(c) ==
    /\ ~c.menu.open
    /\ \E i \in 1..Len(c.calls) : c.calls[i].op = "contextMenu.hide"
    /\ c._highlightedFeatures = <<>>
    /\ FlaggedIn(c, "highlighted") = {}
    /\ ~c._modal

\* C16: after query_ returns, for every kind of query and every starting
\* state, the context menu has been hidden, nothing is highlighted and no
\* 'highlighted' flag is set, and the modal flag is false.
C16_AfterQuery ==
    /\ \A type \in QueryKinds, featureId \in AnnotatedIds :
          AfterQuery(query_(Self, type, featureId))
    /\ lastOp = "query" => AfterQuery([Self EXCEPT !.calls = calls])

\* in B a query item of the menu was picked: the query is outstanding, the
\* menu is closed, nothing is highlighted
C16_Witness ==
    /\ variant = "B"
    /\ lastOp = "query"
    /\ _inQuery
    /\ _highlightedFeatures = <<>>
    /\ Flagged("highlighted") = {}
    /\ ~menu.open
    /\ ~_modal

\* C17: in every reachable state in which a query is outstanding the canvas
\* cursor is the busy indicator, whatever mousemove, click or contextmenu
\* events were handled since; in each variant.
C17_BusyCursorWhileInQuery == _inQuery => cursor = "progress"

\* C18: the controller never clears the in-query flag: once an 'edges' or
\* 'nodes' action has set _inQuery, it stays true under every later
\* operation and event.
C18_InQueryNeverCleared == [][_inQuery => _inQuery']_vars

\* a query is outstanding, and a context menu was opened and dismissed since
C18_Witness ==
    /\ _inQuery
    /\ lastOp = "contextMenuClosed"
    /\ ~menu.open

CallsOf(c, op) == SelectSeq(c.calls, LAMBDA call : call.op = op)

\* what a query of kind `type` for feature `featureId`, started in c, is to
\* have done when it has left d
Dispatched(c, d, type, featureId) ==
    IF type = "data"
    THEN /\ CallsOf(d, "callback") =
               IF Len(modelsForFeature(featureId)) > 0
               THEN <<[op |-> "callback", event |-> "query-data",
                       models |-> modelsForFeature(featureId)]>>
               ELSE <<>>
         /\ CallsOf(d, "queryInterface.query") = <<>>
         /\ d._inQuery = c._inQuery
         /\ d.cursor = c.cursor
    ELSE /\ CallsOf(d, "queryInterface.query") =
               <<[op |-> "queryInterface.query", type |-> type,
                  url |-> Annotation(featureId).url,
                  models |-> Annotation(featureId).models]>>
         /\ d.cursor = "progress"
         /\ d._inQuery

\* C19: picking a query item of the open menu: a 'data' item invokes the
\* host callback 'query-data' with the feature's models iff there are any
\* and leaves the in-query flag and the cursor alone; an 'edges' or 'nodes'
\* item forwards the annotation's url and models to the query interface
\* exactly once, sets the cursor to 'progress' and the in-query flag.
C19_QueryDispatch ==
    menu.open =>
       \A i \in 1..Len(menu.items) :
          menu.items[i].action \in QueryKinds =>
             Dispatched(Self,
                        query_(Self, menu.items[i].action, menu.items[i].id),
                        menu.items[i].action, menu.items[i].id)

\* the positions of the layers declared with background_for
BackgroundLayerAt(ls) == {i \in DOMAIN ls : ls[i].background_for # NULL}

\* the times id occurs in a list of ids
Occurrences(ids, id) == Cardinality({k \in DOMAIN ids : ids[k] = id})

\* the ids of the layers at the positions P, in declaration order
IdsAt(ls, P) ==
    LET picked == SelectSeq([i \in DOMAIN ls |-> [at |-> i, id |-> ls[i].id]],
                            LAMBDA e : e.at \in P)
    IN  [k \in DOMAIN picked |-> picked[k].id]

\* C21: once the constructor has run its loops over flatmap.layers (it is
\* past them, or an exception has ended it in them), and ever after, a layer
\* declared with background_for is on the backgroundLayers of the layer it
\* names, on no other, and was not given to addLayer; every other layer is
\* on no backgroundLayers and was given to addLayer once; and the addLayer
\* calls are those of the other layers, in declaration order.  (It holds
\* when every background_for names a declared layer; when one does not, the
\* second loop throws and no layer at all is given to addLayer.)
C21_LayerPartition ==
    /\ (pc >= 1 \/ lastOp = "TypeError") =>
          /\ \A i \in DOMAIN layers :
                LET layer == layers[i]
                    holders == {j \in DOMAIN layers :
                                   InIds(layers[j].backgroundLayers, layer.id)}
                IN  IF i \in BackgroundLayerAt(layers)
                    THEN /\ holders = {layersById(layers, layer.background_for)}
                         /\ Occurrences(layers[layersById(layers, layer.background_for)]
                                            .backgroundLayers, layer.id) = 1
                         /\ Occurrences(layerManager, layer.id) = 0
                    ELSE /\ holders = {}
                         /\ Occurrences(layerManager, layer.id) = 1
          /\ layerManager = IdsAt(layers, DOMAIN layers \ BackgroundLayerAt(layers))

\* C22: long-press threshold.  A touchend that comes T ms after the most
\* recent touchstart, on an annotated polygon and outside the debounce window,
\* shows the context menu exactly when T >= 500: a press of exactly 500 ms
\* opens the menu.
C22_LongPressThreshold ==
    [][\A event \in TouchEvents :
          (/\ _lastTouchTime > 0
           /\ LandsOnAnnotatedPolygon(event)
           /\ ~Debounced(now, _lastContextTime)
           /\ TouchEndAt(event))
          => (ShowCalls(calls') = 1 <=> now - _lastTouchTime >= LongPressMs)]_vars

\* C23: one menu per touch gesture.  When a touchend has shown the menu and a
\* contextmenu event follows less than 100 ms later, or a contextmenu event
\* has shown it and a touchend follows less than 100 ms later, the second
\* event shows no menu and leaves the debounce timestamp as it was; an event
\* handled as a context-menu event 100 ms or more after the timestamp, on an
\* annotated polygon, shows the menu whatever was suppressed in between.
C23_OneMenuPerGesture ==
    [][\A event \in TouchEvents :
          /\ (/\ lastOp = "touchend"
               /\ ShowCalls(calls) = 1
               /\ now < _lastContextTime + ContextDebounceMs
               /\ ContextMenuAt(event))
              => (ShowCalls(calls') = 0 /\ UNCHANGED <<_lastContextTime, menu>>)
          /\ (/\ lastOp = "contextmenu"
               /\ ShowCalls(calls) = 1
               /\ now < _lastContextTime + ContextDebounceMs
               /\ TouchEndAt(event))
              => (ShowCalls(calls') = 0 /\ UNCHANGED <<_lastContextTime, menu>>)
          /\ (/\ now >= _lastContextTime + ContextDebounceMs
               /\ LandsOnAnnotatedPolygon(event)
               /\ \/ ContextMenuAt(event)
                  \/ now > _lastTouchTime + LongPressMs /\ TouchEndAt(event))
              => (ShowCalls(calls') = 1 /\ _lastContextTime' = now)]_vars

\* a long press was released 99 ms after the event that opened the menu, and
\* the release showed nothing
C23_Witness ==
    /\ lastOp = "touchend"
    /\ calls = <<>>
    /\ menu.open
    /\ _lastTouchTime > 0
    /\ now > _lastTouchTime + LongPressMs
    /\ now = _lastContextTime + ContextDebounceMs - 1

\* C24: menu shown exactly on a hit.  A contextmenu event outside the debounce
\* window shows the menu, at the event's coordinate, and leaves modal true
\* exactly when a smallest annotated polygon is resolved at its point; when
\* none is, no menu is shown and modal, the selection and the menu are as
\* before.
C24_MenuExactlyOnHit ==
    [][\A event \in PointerEvents :
          (~Debounced(now, _lastContextTime) /\ ContextMenuAt(event))
          => LET feature == smallestAnnotatedPolygonAtEvent_(Self, event)
             IN  IF feature # NULL
                 THEN /\ ShowCalls(calls') = 1
                      /\ \A i \in 1..Len(calls') :
                            calls'[i].op = "contextMenu.show" => calls'[i].at = event.lngLat
                      /\ menu'.open
                      /\ _modal'
                 ELSE /\ ShowCalls(calls') = 0
                      /\ UNCHANGED <<_modal, _selectedFeature, featureState, menu>>]_vars

\* the hover at the event finds no feature, or a feature without annotation,
\* or one with no models on a layer that is not queryable
HoverMisses(event) ==
    LET feature == smallestAnnotatedPolygonAtEvent_(Self, event)
    IN  \/ feature = NULL
        \/ ~HasAnnotation(feature)
        \/ /\ Len(Annotation(feature).models) = 0
           /\ ~layerQueryable(Annotation(feature).layer)

\* C25: hover miss, in the annotation-oriented version.  After a mousemove
\* event handled while not modal that misses, no tooltip is visible, no
\* feature is selected or carries the selected flag, and the cursor is ''
\* unless a query is outstanding, in which case it is as before.
C25_HoverMiss ==
    [][\A event \in PointerEvents :
          (/\ variant = "A" /\ ~_modal /\ lastOp' = "mousemove"
           /\ HoverMisses(event)
           /\ MouseMoveAtA(event))
          => /\ ~_tooltip'.shown
             /\ _selectedFeature' = NULL
             /\ Flagged("selected")' = {}
             /\ cursor' = IF _inQuery THEN cursor ELSE ""
             /\ UNCHANGED <<_inQuery, _highlightedFeatures>>]_vars

\* a hover has missed while a query was outstanding: nothing is selected and
\* the busy cursor is kept
C25_Witness ==
    /\ variant = "A"
    /\ lastOp = "mousemove"
    /\ _inQuery
    /\ cursor = "progress"
    /\ _selectedFeature = NULL
    /\ ~_tooltip.shown

\* the tooltip, when visible, belongs to the selected feature: its content is
\* the feature's label or, without label, the first of its model ids
TooltipOfSelection ==
    _tooltip.shown =>
       /\ _selectedFeature # NULL
       /\ HasAnnotation(_selectedFeature)
       /\ Len(Annotation(_selectedFeature).models) > 0
       /\ _tooltip.content =
             tooltip(<<IF Annotation(_selectedFeature).label # ""
                       THEN Annotation(_selectedFeature).label
                       ELSE Annotation(_selectedFeature).models[1]>>)

\* the hover at the event resolves a feature with no models on a queryable layer
HoverOnQueryableWithoutModels(event) ==
    LET feature == smallestAnnotatedPolygonAtEvent_(Self, event)
    IN  /\ feature # NULL
        /\ Len(Annotation(feature).models) = 0
        /\ layerQueryable(Annotation(feature).layer)

\* C26: tooltip matches the hovered feature, in the annotation-oriented
\* version.  Whenever the tooltip is visible a feature is selected and the
\* tooltip shows its label (or first model id); and a mousemove that goes,
\* with no query outstanding, from a feature with models to one with no
\* models on a queryable layer leaves the cursor 'pointer' and no tooltip
\* visible.
C26_TooltipMatchesHover ==
    [][variant = "A" =>
          /\ TooltipOfSelection'
          /\ \A event \in PointerEvents :
                (/\ lastOp' = "mousemove" /\ ~_modal /\ ~_inQuery
                 /\ _tooltip.shown
                 /\ HoverOnQueryableWithoutModels(event)
                 /\ MouseMoveAtA(event))
                => (cursor' = "pointer" /\ ~_tooltip'.shown)]_vars

\* C27: no tooltip beside an open context menu.  A contextmenu event that
\* shows the menu leaves the resolved feature selected and no hover tooltip
\* visible, and in every state in which modal is true no hover tooltip is
\* visible.
C27_NoTooltipWhileModal ==
    [][/\ (_modal => ~_tooltip.shown)'
       /\ \A event \in PointerEvents :
             (/\ lastOp' = "contextmenu"
              /\ ShowCalls(calls') = 1
              /\ ContextMenuAt(event))
             => /\ _selectedFeature' = smallestAnnotatedPolygonAtEvent_(Self, event)
                /\ ~_tooltip'.shown]_vars

\* C28: zoom to a feature from the menu.  In every state with the menu open,
\* picking its 'Zoom to...' item for feature f leaves the menu hidden, the
\* earlier highlights cleared, f the one highlighted feature, and has called
\* fitBounds once, with f's bounding box, padding 100 and animate false.
C28_ZoomToFeature ==
    menu.open =>
       \A i \in 1..Len(menu.items) :
          menu.items[i].action = "zoom" =>
             LET f == menu.items[i].id
                 d == zoomTo_(Self, f)
             IN  /\ ~d.menu.open
                 /\ IdSet(d._highlightedFeatures) = {f}
                 /\ FlaggedIn(d, "highlighted") = {f}
                 /\ FitCalls(d.calls) =
                       <<[op |-> "fitBounds", bbox |-> Annotation(f).bounds,
                          padding |-> 100, animate |-> FALSE]>>

\* C29: click handling, in the annotation-oriented version.  Every click is
\* handled without an exception; a polygon resolved at the click becomes the
\* selected feature and 'query data' is dispatched with its models (the host
\* callback is invoked when there are any); and afterwards no feature is
\* highlighted.
C29_ClickSelectsAndQueries ==
    [][\A event \in PointerEvents :
          (variant = "A" /\ lastOp' = "click" /\ ClickAtA(event))
          => LET feature == smallestAnnotatedPolygonAtEvent_(Self, event)
             IN  /\ \A i \in 1..Len(calls') : calls'[i].op # "throw"
                 /\ feature # NULL =>
                       /\ _selectedFeature' = feature
                       /\ Flagged("selected")' = {feature}
                       /\ SelectSeq(calls', LAMBDA call : call.op = "callback") =
                             IF Len(modelsForFeature(feature)) > 0
                             THEN <<[op |-> "callback", event |-> "query-data",
                                     models |-> modelsForFeature(feature)]>>
                             ELSE <<>>
                 /\ _highlightedFeatures' = <<>>
                 /\ Flagged("highlighted")' = {}]_vars

\* C30: the click of the general viewer.  A click leaves the selected feature,
\* the highlighted features, every feature's flags, the modal flag and the
\* in-query flag as they were; it sets _lastClickedLocation to the click's
\* coordinate when a symbol feature is rendered at the point and leaves it
\* alone when none is; and it forwards to the host one 'click' feature event
\* per symbol feature, in the order of the query result, and nothing else.
C30_ClickForwardsSymbols ==
    [][\A event \in ClickEvents :
          (variant = "B" /\ lastOp' = "click" /\ ClickAtB(event))
          => LET at == {i \in 1..Len(event.features) :
                           LayerType(event.features[i]) = "symbol"}
             IN  /\ UNCHANGED <<_selectedFeature, _highlightedFeatures, featureState,
                                _modal, _inQuery>>
                 /\ _lastClickedLocation' =
                       IF at # {} THEN event.lngLat ELSE _lastClickedLocation
                 /\ Len(calls') = Cardinality(at)
                 /\ \A k \in 1..Len(calls') :
                       /\ calls'[k].op = "featureEvent"
                       /\ calls'[k].event = "click"
                       /\ \E i \in at :
                             /\ calls'[k].feature = event.features[i]
                             /\ Cardinality({j \in at : j <= i}) = k]_vars

\* while the menu is open on a selected feature, a click on the point with
\* the symbols f7 and f5 has forwarded both, in that order
C30_Witness ==
    /\ variant = "B"
    /\ lastOp = "click"
    /\ _modal
    /\ _selectedFeature # NULL
    /\ _lastClickedLocation = "p12"
    /\ Len(calls) = 2
    /\ calls[1].feature = "f7"
    /\ calls[2].feature = "f5"

\* the labelled features of least area property among those of the event
LeastLabelled(event) ==
    {f \in IdSet(event.features) :
        /\ HasLabelProperty(f)
        /\ \A g \in IdSet(event.features) : HasLabelProperty(g) => Area(f) <= Area(g)}

\* C31: hover fallback of the general viewer.  From every state, after a
\* mousemove over rendered features for which the info surface gives no
\* description (or there is no info surface), the one feature marked
\* active is a labelled feature of
\* least area, none when no feature is labelled; for a symbol feature the
\* cursor is 'pointer' and there is no tooltip, otherwise the tooltip is the
\* feature's label exactly when options.tooltips is set.  When the info
\* surface gives HTML, that HTML is the tooltip and no feature is active.
C31_HoverFallback ==
    variant = "B" =>
       \A event \in PointerEvents, info \in InfoChoices :
          Len(event.features) > 0 =>
             LET d == mouseMoveEvent_B(Self, event, info)
                 active == d._activeFeature
             IN  IF HasInfoControl(Self) /\ info # NoHtml
                 THEN /\ d._tooltip = [shown |-> TRUE, content |-> info]
                      /\ active = NULL
                      /\ FlaggedIn(d, "active") = {}
                 ELSE IF LeastLabelled(event) = {}
                 THEN /\ active = NULL
                      /\ FlaggedIn(d, "active") = {}
                      /\ ~d._tooltip.shown
                 ELSE /\ active \in LeastLabelled(event)
                      /\ FlaggedIn(d, "active") = {active}
                      /\ IF LayerType(active) = "symbol"
                         THEN d.cursor = "pointer" /\ ~d._tooltip.shown
                         ELSE /\ d.cursor = "default"
                              /\ d._tooltip.shown <=> options.tooltips
                              /\ d._tooltip.shown =>
                                    d._tooltip.content = LabelHtml(active)

\* a hover over the symbol f5 (area 5) and the labelled f6 (area 1) has made
\* f6 active and shown its label
C31_Witness ==
    /\ variant = "B"
    /\ lastOp = "mousemove"
    /\ _activeFeature = "f6"
    /\ Flagged("active") = {"f6"}
    /\ cursor = "default"
    /\ _tooltip = [shown |-> TRUE, content |-> LabelHtml("f6")]

\* the positions of the calls named op among the calls cs
CallsAt(cs, op) == {i \in 1..Len(cs) : cs[i].op = op}

\* C32: single transient overlay, in the general viewer.  The map never
\* carries more than one hover tooltip of the controller nor more than one
\* popup of showPopup, and what it carries is what the controller refers to;
\* from every state, a mousemove first takes the earlier tooltip off the map
\* and then puts at most one on it, and a showPopup for an annotated feature
\* removes the earlier popup, if there is one, before it adds the new one.
C32_SingleOverlay ==
    variant = "B" =>
       /\ onMap.tooltip = (IF _tooltip.shown THEN 1 ELSE 0)
       /\ onMap.popup = (IF _currentPopup.attached THEN 1 ELSE 0)
       /\ removeTooltip_(Self).onMap.tooltip = 0
       /\ \A event \in PointerEvents, info \in InfoChoices :
             LET d == mouseMoveEvent_B(Self, event, info)
             IN  /\ d.onMap.tooltip = (IF d._tooltip.shown THEN 1 ELSE 0)
                 /\ d.onMap.popup = onMap.popup
       /\ \A featureId \in AnnotatedIds, content \in PopupContents, onScreen \in BOOLEAN :
             LET d == showPopup(Self, featureId, content, onScreen)
                 removes == CallsAt(d.calls, "popup.remove")
                 adds == CallsAt(d.calls, "popup.addTo")
             IN  /\ d.onMap.popup = 1
                 /\ d.onMap.tooltip = onMap.tooltip
                 /\ Cardinality(adds) = 1
                 /\ Cardinality(removes) = onMap.popup
                 /\ \A i \in removes, j \in adds : i < j

\* a second popup was shown while a hover tooltip was on the map: one of each
\* is attached
C32_Witness ==
    /\ variant = "B"
    /\ lastOp = "showPopup"
    /\ calls # <<>>
    /\ calls[1].op = "popup.remove"
    /\ _tooltip.shown
    /\ onMap = [tooltip |-> 1, popup |-> 1]

\* C33: re-entrancy of the UI-loaded callback.  A call of
\* layerSwitcherActiveCallback_ made from inside the running callback does
\* not invoke the callback again: at most one activation of the callback
\* exists at any time and the callback is invoked at most once.
C33_CallbackNotReentered ==
    /\ inCallback <= 1
    /\ uiLoaded <= 1

\* C34: add/remove symmetry of the annotation region control.  While the
\* control is on the map the container holds its four buttons, in the order
\* point, line-string, polygon, trash, each with one click listener; while
\* it is not, after any number of onAdd/onRemove cycles, no button is in the
\* container, no button listener is registered, and no more window 'keyup'
\* listeners and map 'draw.create' handlers are registered than before the
\* first onAdd.
C34_AddRemoveSymmetry ==
    /\ control.added =>
          /\ control.container = Buttons
          /\ \A i \in DOMAIN Buttons : control.click[i] = 1
    /\ ~control.added =>
          /\ control.container = <<>>
          /\ \A i \in DOMAIN Buttons : control.click[i] = 0
          /\ control.keyup = NewControl.keyup
          /\ control.drawCreate = NewControl.drawCreate

====
